---- MODULE Spec2Model ----
(***************************************************************************)
(* RefNet citation-graph engine: identifier normalisation                  *)
(* (refnet/utils/validators.py), the OpenAlex adapter                      *)
(* (refnet/services/openalex_service.py) and the graph engine              *)
(* (refnet/services/graph_service.py).                                     *)
(*                                                                         *)
(* An identifier is a string; it is modelled as a sequence of tokens, each *)
(* token standing for a substring that the code tests or adds as a whole:  *)
(* the OpenAlex URL prefix, the DOI URL prefix, the DOI prefix "10.", a    *)
(* blank, and opaque remainders ("W1", "x1").                              *)
(***************************************************************************)
EXTENDS Integers, Sequences, FiniteSets, TLC

\* ------------------------------------------------------------ bounds
NumPapers == 3      \* papers known to the record source
NumAlt == 1         \* papers 1..NumAlt have a DOI and are also listed by URL or DOI
MaxEntries == 2     \* list entries the record source returns in one behaviour
MaxList == 1        \* longest citing list of one answer
MaxRefs == 2        \* longest reference list of one answer
MaxIter == 2        \* largest `iterations` argument
MaxLimit == 1       \* largest per-iteration limit argument
MaxRoots == 2       \* longest root list
MaxCalls == 2       \* handler calls in one behaviour
MaxIdLen == 3       \* longest identifier fed to the normaliser alone

Papers == 1 .. NumPapers

\* ------------------------------------------------------------ identifiers
OA == "https://openalex.org/"
DOIURL == "https://doi.org/"
DOIPFX == "10."
SP == " "

WTok(p) == "W" \o ToString(p)
XTok(p) == "x" \o ToString(p)

Bare(p) == << WTok(p) >>
Url(p) == << OA, WTok(p) >>
Doi(p) == << DOIPFX, XTok(p) >>
DoiUrl(p) == << DOIURL, DOIPFX, XTok(p) >>

RECURSIVE lstrip(_)
lstrip(s) == IF s # << >> /\ Head(s) = SP THEN lstrip(Tail(s)) ELSE s

RECURSIVE rstrip(_)
rstrip(s) ==
    IF s # << >> /\ s[Len(s)] = SP THEN rstrip(SubSeq(s, 1, Len(s) - 1)) ELSE s

strip(s) == rstrip(lstrip(s))

startswith(s, tok) == s # << >> /\ Head(s) = tok

\* validate_paper_id normalising the identifier as given, blanks and all
validate_paper_id_unstripped(paper_id) ==
    IF paper_id = << >> \/ strip(paper_id) = << >> THEN [valid |-> FALSE, id |-> << >>]
    ELSE IF startswith(paper_id, DOIPFX) THEN [valid |-> TRUE, id |-> << DOIURL >> \o paper_id]
    ELSE IF ~ startswith(paper_id, OA) THEN [valid |-> TRUE, id |-> << OA >> \o paper_id]
    ELSE [valid |-> TRUE, id |-> paper_id]

\* validators.validate_paper_id: (is_valid, normalized_id)
validate_paper_id(paper_id) ==
    IF paper_id = << >> THEN [valid |-> FALSE, id |-> << >>]
    ELSE LET s == strip(paper_id) IN
         IF s = << >> THEN [valid |-> FALSE, id |-> << >>]
         ELSE IF startswith(s, DOIPFX) THEN [valid |-> TRUE, id |-> << DOIURL >> \o s]
         ELSE IF ~ startswith(s, OA) THEN [valid |-> TRUE, id |-> << OA >> \o s]
         ELSE [valid |-> TRUE, id |-> s]

\* ------------------------------------------------------------ helpers
Range(s) == { s[i] : i \in 1 .. Len(s) }

Min(a, b) == IF a < b THEN a ELSE b

\* Python's s[:n]
Take(s, n) == SubSeq(s, 1, Min(n, Len(s)))

\* d[k] = v on a dict modelled as a function
Put(d, k, v) == (k :> v) @@ d

Without(d, ks) == [ k \in (DOMAIN d) \ ks |-> d[k] ]

RECURSIVE SeqWithout(_, _)
SeqWithout(s, x) ==
    IF s = << >> THEN << >>
    ELSE IF Head(s) = x THEN SeqWithout(Tail(s), x)
    ELSE << Head(s) >> \o SeqWithout(Tail(s), x)

\* ------------------------------------------------------------ record source
\* The work a GET /works/<req> of the record source finds (0: none): works
\* are addressed by their OpenAlex URL or, when registered, their DOI URL.
Resolve(req) ==
    IF \E p \in Papers : req = Url(p) THEN CHOOSE p \in Papers : req = Url(p)
    ELSE IF \E p \in 1 .. NumAlt : req = DoiUrl(p)
         THEN CHOOSE p \in 1 .. NumAlt : req = DoiUrl(p)
    ELSE 0

\* Paper.authors is non-empty (PaperFormatter keeps the named authorships);
\* the last work of the source has no named author.
HasAuthors(p) == p # NumPapers

\* Paper.citations (cited_by_count)
CitationsOf(p) == (p % 2) + 1

\* Paper.id: the record's own id, an OpenAlex URL
PaperId(p) == Url(p)

\* ------------------------------------------------------------ adapter
\* The identifier an adapter call requests (get_paper_by_id, get_citing_papers
\* and get_paper_references each repeat these lines); no strip here.
AdapterNormalize(paper_id) ==
    IF startswith(paper_id, DOIPFX) THEN << DOIURL >> \o paper_id
    ELSE IF ~ startswith(paper_id, OA) THEN << OA >> \o paper_id
    ELSE paper_id

\* OpenAlexService.get_paper_by_id on engine state e; `up` are the works the
\* source delivers within the retries. [paper |-> 0] is None.
get_paper_by_id(e, paper_id, up) ==
    LET Lookup(normalized_id, p) ==
            IF normalized_id \in DOMAIN e.svc_cache
            THEN [paper |-> e.svc_cache[normalized_id], e |-> e]
            ELSE IF p # 0 /\ p \in up
            THEN [paper |-> p,
                  e |-> [e EXCEPT !.svc_cache = Put(@, normalized_id, p)]]
            ELSE [paper |-> 0, e |-> e]
        Request(normalized_id) == Lookup(normalized_id, Resolve(normalized_id))
    IN  Request(AdapterNormalize(paper_id))

\* 'openalex.org/' in u -> u.split('openalex.org/')[-1], else u
StripOpenAlex(u) ==
    IF \E i \in 1 .. Len(u) : u[i] = OA
    THEN LET last == CHOOSE i \in 1 .. Len(u) :
                        u[i] = OA /\ \A j \in (i + 1) .. Len(u) : u[j] # OA
         IN  SubSeq(u, last + 1, Len(u))
    ELSE u

\* OpenAlexService.get_citing_papers: the records of the works citing
\* paper_id, at most per-page of them; `cit` is what the source holds.
get_citing_papers(paper_id, cit, per_page) ==
    IF Resolve(AdapterNormalize(paper_id)) # 0
    THEN Take(cit, Min(per_page, 200))
    ELSE << >>

\* OpenAlexService.get_top_cited_papers
get_top_cited_papers(paper_id, cit, limit) == get_citing_papers(paper_id, cit, limit)

\* OpenAlexService.get_paper_references: referenced_works, prefix stripped
get_paper_references(paper_id, ref) ==
    IF Resolve(AdapterNormalize(paper_id)) # 0
    THEN [ i \in 1 .. Len(ref) |-> StripOpenAlex(Url(ref[i])) ]
    ELSE << >>

RECURSIVE InsertDesc(_, _)
InsertDesc(acc, p) ==
    IF acc = << >> THEN << p >>
    ELSE IF CitationsOf(Head(acc)) >= CitationsOf(p)
         THEN << Head(acc) >> \o InsertDesc(Tail(acc), p)
         ELSE << p >> \o acc

\* papers.sort(key=lambda x: x.citations, reverse=True): stable
RECURSIVE SortByCitations(_, _)
SortByCitations(s, acc) ==
    IF s = << >> THEN acc ELSE SortByCitations(Tail(s), InsertDesc(acc, Head(s)))

\* the loop of get_top_reference_papers over reference_ids[:limit * 2]
RECURSIVE FetchAll(_, _, _, _)
FetchAll(e, ids, up, papers) ==
    LET Got(r) == FetchAll(r.e, Tail(ids), up,
                           IF r.paper # 0 THEN Append(papers, r.paper) ELSE papers)
    IN  IF ids = << >> THEN [papers |-> papers, e |-> e]
        ELSE Got(get_paper_by_id(e, Head(ids), up))

\* OpenAlexService.get_top_reference_papers
get_top_reference_papers(e, paper_id, ref, limit, up) ==
    LET Sorted(r) == [papers |-> Take(SortByCitations(r.papers, << >>), limit),
                      e |-> r.e]
    IN  Sorted(FetchAll(e, Take(get_paper_references(paper_id, ref), limit * 2),
                        up, << >>))

\* list(all_new_paper_ids): the identifiers of a set, in the set's own order
RECURSIVE SeqOf(_)
SeqOf(ids) ==
    IF ids = {} THEN << >>
    ELSE LET x == CHOOSE y \in ids : TRUE
         IN  << x >> \o SeqOf(ids \ {x})

\* paper_ids[:10] of _get_papers_individually
IndividualCap == 10

\* the papers list a loop of individual lookups has built
PapersOf(r) == [papers |-> Range(r.papers), e |-> r.e]

\* OpenAlexService._get_papers_individually without the slice of paper_ids
get_papers_individually_uncapped(e, paper_ids, up) ==
    PapersOf(FetchAll(e, paper_ids, up, << >>))

\* OpenAlexService._get_papers_individually
get_papers_individually(e, paper_ids, up) ==
    PapersOf(FetchAll(e, Take(paper_ids, IndividualCap), up, << >>))

\* the ids of the batch filter: validated, and prefixed unless OpenAlex URLs
BatchFilterIds(paper_ids) ==
    { LET v == validate_paper_id(id)
      IN  IF startswith(v.id, OA) THEN v.id ELSE << OA >> \o v.id :
      id \in { x \in paper_ids : validate_paper_id(x).valid } }

\* OpenAlexService.get_papers_batch; mode is the batch request's outcome:
\* "ok" (an answer), "429" (rate limited), "err" (any other failure)
get_papers_batch(e, paper_ids, mode, up) ==
    LET Answer(found) ==
            IF found # {}
            THEN [papers |-> found,
                  e |-> [e EXCEPT !.svc_cache =
                            [ k \in { PaperId(p) : p \in found } |-> Resolve(k) ] @@ @]]
            ELSE PapersOf(FetchAll(e, paper_ids, up, << >>))
        Query(openalex_ids) ==
            IF paper_ids = << >> \/ openalex_ids = {} THEN [papers |-> {}, e |-> e]
            ELSE IF mode = "429" THEN get_papers_individually(e, paper_ids, up)
            ELSE IF mode = "err" THEN [papers |-> {}, e |-> e]
            ELSE Answer({ p \in up : Url(p) \in openalex_ids })
    IN  Query(BatchFilterIds(Range(paper_ids)))

\* OpenAlexService.get_citations_and_references_batch: for every frontier
\* paper the source knows, the identifiers of its citing and of its referenced
\* works, prefix stripped, at most per-page of each; ans[i] is what the
\* source holds for paper_ids[i].
get_citations_and_references_batch(paper_ids, ans, cited_per_page, ref_per_page) ==
    [ i \in 1 .. Len(paper_ids) |->
        IF Resolve(paper_ids[i]) # 0
        THEN [citations |->
                 [ j \in 1 .. Min(cited_per_page, Len(ans[i].cit)) |->
                     StripOpenAlex(Url(ans[i].cit[j])) ],
              references |->
                 [ j \in 1 .. Min(ref_per_page, Len(ans[i].ref)) |->
                     StripOpenAlex(Url(ans[i].ref[j])) ]]
        ELSE [citations |-> << >>, references |-> << >>] ]

\* ------------------------------------------------------------ graph (networkx.DiGraph)
\* An engine state e has the fields of GraphService and of its adapter:
\*   nodes         the graph's node keys in insertion order
\*   data          node key -> the paper whose attributes the node carries (0: none)
\*   edges         the set of (source, target) pairs
\*   added_papers, paper_cache, svc_cache (OpenAlexService.paper_cache)
\* and two counters kept beside the graph: nins[k], the add_node calls made
\* for key k since k last entered the graph, and eins[<<s, t>>], the
\* add_edge calls made for the pair since it last entered.
NoFn == [ x \in {} |-> 0 ]

EmptyEngine ==
    [nodes |-> << >>, data |-> NoFn, edges |-> {}, added_papers |-> {},
     paper_cache |-> NoFn, svc_cache |-> NoFn, nins |-> NoFn, eins |-> NoFn]

Count(f, k) == IF k \in DOMAIN f THEN f[k] ELSE 0

\* DiGraph.add_node(n, **attrs)
add_node(e, n, p) ==
    [e EXCEPT !.nodes = IF n \in Range(@) THEN @ ELSE Append(@, n),
              !.data = Put(@, n, p),
              !.nins = Put(@, n, Count(@, n) + 1)]

\* a node created by add_edge because an endpoint is missing
touch_node(e, n) ==
    IF n \in Range(e.nodes) THEN e
    ELSE [e EXCEPT !.nodes = Append(@, n), !.data = Put(@, n, 0)]

\* DiGraph.add_edge(u, v)
add_edge(e, u, v) ==
    LET e2 == touch_node(touch_node(e, u), v)
    IN  [e2 EXCEPT !.edges = @ \cup {<< u, v >>},
                   !.eins = Put(@, << u, v >>, Count(@, << u, v >>) + 1)]

\* DiGraph.add_edges_from(list)
RECURSIVE add_edges_from(_, _)
add_edges_from(e, es) ==
    IF es = << >> THEN e
    ELSE add_edges_from(add_edge(e, Head(es)[1], Head(es)[2]), Tail(es))

\* DiGraph.edges(n): the edges leaving n
OutEdges(e, n) == { ed \in e.edges : ed[1] = n }

RemoveEdges(e, es) ==
    [e EXCEPT !.edges = @ \ es, !.eins = Without(@, es)]

\* DiGraph.remove_node(n): the node and every edge at it
remove_node(e, n) ==
    LET gone == { ed \in e.edges : ed[1] = n \/ ed[2] = n }
    IN  [e EXCEPT !.nodes = SeqWithout(@, n),
                  !.data = Without(@, {n}),
                  !.nins = Without(@, {n}),
                  !.edges = @ \ gone,
                  !.eins = Without(@, gone)]

InDegree(e, n) == Cardinality({ ed \in e.edges : ed[2] = n })
OutDegree(e, n) == Cardinality({ ed \in e.edges : ed[1] = n })
\* DiGraph.degree(n): a self-loop counts twice
Degree(e, n) == InDegree(e, n) + OutDegree(e, n)

\* ------------------------------------------------------------ engine
\* add_paper_to_graph with its strict-mode test turned round
admit_roots_only(e, normalized_id, p, is_root) ==
    IF ~ is_root /\ HasAuthors(p) THEN [ret |-> FALSE, e |-> e]
    ELSE [ret |-> TRUE,
          e |-> [add_node(e, normalized_id, p) EXCEPT
                    !.added_papers = @ \cup {normalized_id, PaperId(p)}]]

\* add_paper_to_graph without its strict-mode test of the authors
admit_unfiltered(e, normalized_id, p, is_root) ==
    [ret |-> TRUE,
     e |-> [add_node(e, normalized_id, p) EXCEPT
               !.added_papers = @ \cup {normalized_id, PaperId(p)}]]

\* add_paper_to_graph after its early returns, paper p in hand
admit(e, normalized_id, p, is_root) ==
    IF ~ is_root /\ ~ HasAuthors(p) THEN [ret |-> FALSE, e |-> e]
    ELSE [ret |-> TRUE,
          e |-> [add_node(e, normalized_id, p) EXCEPT
                    !.added_papers = @ \cup {normalized_id, PaperId(p)}]]

\* add_paper_to_graph without its test of added_papers
add_paper_to_graph_unguarded(e, paper_id, is_root, up) ==
    LET Fetched(v, r) ==
            IF r.paper = 0 THEN [ret |-> FALSE, e |-> r.e]
            ELSE admit([r.e EXCEPT !.paper_cache =
                           Put(Put(@, v.id, r.paper), PaperId(r.paper), r.paper)],
                       v.id, r.paper, is_root)
        Checked(v) ==
            IF ~ v.valid THEN [ret |-> FALSE, e |-> e]
            ELSE IF v.id \in DOMAIN e.paper_cache
            THEN admit(e, v.id, e.paper_cache[v.id], is_root)
            ELSE Fetched(v, get_paper_by_id(e, paper_id, up))
    IN  Checked(validate_paper_id(paper_id))

\* GraphService.add_paper_to_graph(paper_id, is_root)
add_paper_to_graph(e, paper_id, is_root, up) ==
    LET Fetched(v, r) ==
            IF r.paper = 0 THEN [ret |-> FALSE, e |-> r.e]
            ELSE admit([r.e EXCEPT !.paper_cache =
                           Put(Put(@, v.id, r.paper), PaperId(r.paper), r.paper)],
                       v.id, r.paper, is_root)
        Checked(v) ==
            IF ~ v.valid \/ v.id \in e.added_papers THEN [ret |-> FALSE, e |-> e]
            ELSE IF v.id \in DOMAIN e.paper_cache
            THEN admit(e, v.id, e.paper_cache[v.id], is_root)
            ELSE Fetched(v, get_paper_by_id(e, paper_id, up))
    IN  Checked(validate_paper_id(paper_id))

\* remove_paper_from_graph taking only the edges that leave the node
remove_paper_from_graph_out_only(e, paper_id) ==
    LET Checked(v) ==
            IF ~ v.valid \/ v.id \notin Range(e.nodes) THEN [ret |-> FALSE, e |-> e]
            ELSE [ret |-> TRUE,
                  e |-> [RemoveEdges(e, OutEdges(e, v.id)) EXCEPT
                            !.nodes = SeqWithout(@, v.id),
                            !.data = Without(@, {v.id}),
                            !.nins = Without(@, {v.id}),
                            !.added_papers = @ \ {v.id}]]
    IN  Checked(validate_paper_id(paper_id))

\* GraphService.remove_paper_from_graph
remove_paper_from_graph(e, paper_id) ==
    LET Checked(v) ==
            IF ~ v.valid \/ v.id \notin Range(e.nodes) THEN [ret |-> FALSE, e |-> e]
            ELSE [ret |-> TRUE,
                  e |-> [remove_node(RemoveEdges(e, OutEdges(e, v.id)), v.id) EXCEPT
                            !.added_papers = @ \ {v.id}]]
    IN  Checked(validate_paper_id(paper_id))

\* the orphan sweep of remove_node_with_connections over list(graph.nodes());
\* degree() of a key that has left the graph is a view, never equal to 0
RECURSIVE sweep(_, _, _)
sweep(e, todo, orphaned) ==
    IF todo = << >> THEN [orphaned |-> orphaned, e |-> e]
    ELSE IF Head(todo) \in Range(e.nodes) /\ Degree(e, Head(todo)) = 0
    THEN sweep(remove_paper_from_graph(e, Head(todo)).e, Tail(todo),
               Append(orphaned, Head(todo)))
    ELSE sweep(e, Tail(todo), orphaned)

\* GraphService.remove_node_with_connections; kind is "invalid", "absent",
\* "failed" or "ok"
remove_node_with_connections(e, paper_id, remove_orphaned) ==
    LET none == [kind |-> "invalid", connected |-> {}, orphaned |-> << >>, e |-> e]
        Swept(connected_nodes, s) ==
            [kind |-> "ok", connected |-> connected_nodes, orphaned |-> s.orphaned,
             e |-> s.e]
        Removed(connected_nodes, r) ==
            IF ~ r.ret THEN [none EXCEPT !.kind = "failed"]
            ELSE IF ~ remove_orphaned
            THEN [kind |-> "ok", connected |-> connected_nodes, orphaned |-> << >>,
                  e |-> r.e]
            ELSE Swept(connected_nodes, sweep(r.e, r.e.nodes, << >>))
        Checked(v) ==
            IF ~ v.valid THEN none
            ELSE IF v.id \notin Range(e.nodes) THEN [none EXCEPT !.kind = "absent"]
            ELSE Removed(UNION { {ed[1], ed[2]} : ed \in OutEdges(e, v.id) },
                         remove_paper_from_graph(e, paper_id))
    IN  Checked(validate_paper_id(paper_id))

\* GraphService.clear_graph
clear_graph(e) ==
    [papers_removed |-> Len(e.nodes),
     e |-> [e EXCEPT !.nodes = << >>, !.data = NoFn, !.edges = {}, !.nins = NoFn,
                     !.eins = NoFn, !.added_papers = {}, !.svc_cache = NoFn]]

\* "Reset graph state for each new request" of the build entry points
reset_state(e) ==
    [e EXCEPT !.nodes = << >>, !.data = NoFn, !.edges = {}, !.nins = NoFn,
              !.eins = NoFn, !.added_papers = {}, !.paper_cache = NoFn]

\* ------------------------------------------------------------ expansion rounds
\* A round works on st = [e, next, edges_to_add, disc]: the engine state, the
\* next_level list, the edges build_graph_from_root holds back until the end
\* of its round, and disc, the record of the round's admissions: kind
\* ("citing" or "reference"), the frontier key p, the admitted key c and the
\* edge <<s, t>> inserted for it.
StartRound(e) == [e |-> e, next |-> << >>, edges_to_add |-> << >>, disc |-> {}]

Found(kind, p, c, s, t) == [kind |-> kind, p |-> p, c |-> c, s |-> s, t |-> t]

CacheOf(papers) ==
    [ k \in { PaperId(p) : p \in papers } |-> CHOOSE p \in papers : PaperId(p) = k ]

\* build_graph_from_roots, one citing_id or ref_id of frontier paper paper_id
roots_candidate(st, paper_id, cand_id, kind, up) ==
    LET Edge(r, c, s, t) ==
            [st EXCEPT !.e = add_edge(r.e, s, t),
                       !.next = Append(@, c),
                       !.disc = @ \cup {Found(kind, paper_id, c, s, t)}]
        Added(r, v) ==
            IF r.ret /\ v.valid
            THEN IF kind = "citing" THEN Edge(r, v.id, v.id, paper_id)
                 ELSE Edge(r, v.id, paper_id, v.id)
            ELSE [st EXCEPT !.e = r.e]
    IN  Added(add_paper_to_graph(st.e, cand_id, FALSE, up), validate_paper_id(cand_id))

RECURSIVE roots_candidates(_, _, _, _, _)
roots_candidates(st, paper_id, ids, kind, up) ==
    IF ids = << >> THEN st
    ELSE roots_candidates(roots_candidate(st, paper_id, Head(ids), kind, up),
                          paper_id, Tail(ids), kind, up)

\* "Process each paper in current level" giving the round up at the first
\* citing candidate that is not admitted
RECURSIVE roots_level_abort(_, _, _, _, _, _, _)
roots_level_abort(st, level, i, combined, cl, rl, up) ==
    IF i > Len(level) THEN st
    ELSE LET citing == Take(combined[i].citations, cl)
             a == roots_candidates(st, level[i], citing, "citing", up)
             b == roots_candidates(a, level[i], Take(combined[i].references, rl),
                                   "reference", up)
         IN  IF Len(a.next) < Len(st.next) + Len(citing) THEN a
             ELSE roots_level_abort(b, level, i + 1, combined, cl, rl, up)

\* "Process each paper in current level" without the [:top_cited_limit] and
\* [:top_references_limit] slices
RECURSIVE roots_level_unsliced(_, _, _, _, _, _, _)
roots_level_unsliced(st, level, i, combined, cl, rl, up) ==
    IF i > Len(level) THEN st
    ELSE LET a == roots_candidates(st, level[i], combined[i].citations, "citing", up)
             b == roots_candidates(a, level[i], combined[i].references, "reference", up)
         IN  roots_level_unsliced(b, level, i + 1, combined, cl, rl, up)

\* build_graph_from_roots, "Process each paper in current level"
RECURSIVE roots_level(_, _, _, _, _, _, _)
roots_level(st, level, i, combined, cl, rl, up) ==
    IF i > Len(level) THEN st
    ELSE LET a == roots_candidates(st, level[i], Take(combined[i].citations, cl),
                                   "citing", up)
             b == roots_candidates(a, level[i], Take(combined[i].references, rl),
                                   "reference", up)
         IN  roots_level(b, level, i + 1, combined, cl, rl, up)

\* build_graph_from_roots, the body of its iteration loop
roots_round(e, level, ans, mode, up, cl, rl) ==
    LET Cached(combined, b) ==
            roots_level(StartRound([b.e EXCEPT !.paper_cache = CacheOf(b.papers) @@ @]),
                        level, 1, combined, cl, rl, up)
        Prefetch(combined) ==
            Cached(combined,
                   get_papers_batch(
                       e,
                       SeqOf(UNION { Range(Take(combined[i].citations, cl))
                                         \cup Range(Take(combined[i].references, rl)) :
                                     i \in 1 .. Len(level) }),
                       mode, up))
    IN  Prefetch(get_citations_and_references_batch(
                     level, ans, Min(200, cl * 5), Min(200, rl * 5)))

\* build_graph_from_root putting every valid candidate it tries on next_level,
\* admitted or not
root_candidate_any_next(st, normalized_current_id, cand_id, kind, up) ==
    LET Added(v, r) ==
            IF r.ret
            THEN [st EXCEPT !.e = r.e,
                            !.edges_to_add = Append(@, << normalized_current_id, v.id >>),
                            !.next = Append(@, v.id),
                            !.disc = @ \cup {Found(kind, normalized_current_id, v.id,
                                                   normalized_current_id, v.id)}]
            ELSE [st EXCEPT !.e = r.e, !.next = Append(@, v.id)]
        Checked(v) ==
            IF cand_id \in st.e.added_papers \/ ~ v.valid THEN st
            ELSE Added(v, add_paper_to_graph(st.e, cand_id, FALSE, up))
    IN  Checked(validate_paper_id(cand_id))

\* build_graph_from_root, one citing_id or ref_id of frontier paper paper_id
root_candidate(st, normalized_current_id, cand_id, kind, up) ==
    LET Added(v, r) ==
            IF r.ret
            THEN [st EXCEPT !.e = r.e,
                            !.edges_to_add = Append(@, << normalized_current_id, v.id >>),
                            !.next = Append(@, v.id),
                            !.disc = @ \cup {Found(kind, normalized_current_id, v.id,
                                                   normalized_current_id, v.id)}]
            ELSE [st EXCEPT !.e = r.e]
        Checked(v) ==
            IF cand_id \in st.e.added_papers \/ ~ v.valid THEN st
            ELSE Added(v, add_paper_to_graph(st.e, cand_id, FALSE, up))
    IN  Checked(validate_paper_id(cand_id))

RECURSIVE root_candidates(_, _, _, _, _)
root_candidates(st, normalized_current_id, ids, kind, up) ==
    IF ids = << >> THEN st
    ELSE root_candidates(root_candidate(st, normalized_current_id, Head(ids), kind, up),
                         normalized_current_id, Tail(ids), kind, up)

\* build_graph_from_root, "Process all papers in the current level"
RECURSIVE root_level(_, _, _, _, _, _, _)
root_level(st, level, i, combined, cl, rl, up) ==
    LET Refs(cur, a) ==
            root_candidates(a, cur.id, Take(combined[i].references, rl), "reference", up)
        Paper(cur) ==
            IF ~ cur.valid THEN st
            ELSE Refs(cur, root_candidates(st, cur.id, Take(combined[i].citations, cl),
                                           "citing", up))
    IN  IF i > Len(level) THEN st
        ELSE root_level(Paper(validate_paper_id(level[i])), level, i + 1,
                        combined, cl, rl, up)

\* the batch answer cached under the normalised and the record id
RECURSIVE cache_batch(_, _)
cache_batch(cache, papers) ==
    LET One(p, v) ==
            cache_batch(IF v.valid THEN Put(Put(cache, v.id, p), PaperId(p), p)
                        ELSE cache,
                        papers \ {p})
        Pick(p) == One(p, validate_paper_id(PaperId(p)))
    IN  IF papers = {} THEN cache
        ELSE Pick(CHOOSE x \in papers : TRUE)

\* build_graph_from_root, the body of its iteration loop (before the break)
root_round(e, level, ans, mode, up, cl, rl) ==
    LET Edges(st) == [st EXCEPT !.e = add_edges_from(@, st.edges_to_add)]
        Cached(combined, b) ==
            Edges(root_level(
                      StartRound([b.e EXCEPT !.paper_cache = cache_batch(@, b.papers)]),
                      level, 1, combined, cl, rl, up))
        Prefetch(combined) ==
            Cached(combined,
                   get_papers_batch(
                       e,
                       SeqOf((UNION { Range(Take(combined[i].citations, cl))
                                          \cup Range(Take(combined[i].references, rl)) :
                                      i \in 1 .. Len(level) }) \ e.added_papers),
                       mode, up))
    IN  Prefetch(get_citations_and_references_batch(
                     level, ans, Min(200, cl * 3), Min(200, rl * 3)))

\* expand_from_node, the papers found for node_id, citing or referenced
RECURSIVE expand_papers(_, _, _, _, _)
expand_papers(st, node_id, papers, kind, up) ==
    LET Edge(r, id, s, t) ==
            [st EXCEPT !.e = add_edge(r.e, s, t),
                       !.next = Append(@, id),
                       !.disc = @ \cup {Found(kind, node_id, id, s, t)}]
        Added(id, r) ==
            IF r.ret
            THEN IF kind = "citing" THEN Edge(r, id, id, node_id)
                 ELSE Edge(r, id, node_id, id)
            ELSE [st EXCEPT !.e = r.e]
        One(id) == Added(id, add_paper_to_graph(st.e, id, FALSE, up))
    IN  IF papers = << >> THEN st
        ELSE expand_papers(One(PaperId(Head(papers))), node_id, Tail(papers), kind, up)

\* expand_from_node, "for node_id in current_level"
RECURSIVE expand_level(_, _, _, _, _, _, _)
expand_level(st, level, i, ans, cl, rl, up) ==
    LET Refs(a, refs) ==
            expand_papers([a EXCEPT !.e = refs.e], level[i], refs.papers,
                          "reference", up)
        Citing(a) ==
            Refs(a, get_top_reference_papers(a.e, level[i], ans[i].ref, rl, up))
    IN  IF i > Len(level) THEN st
        ELSE expand_level(
                 Citing(expand_papers(st, level[i],
                                      get_top_cited_papers(level[i], ans[i].cit, cl),
                                      "citing", up)),
                 level, i + 1, ans, cl, rl, up)

\* the loop body of expand_from_node starting, as the builds do, from reset state
expand_round_reset(e, level, ans, up, cl, rl) ==
    expand_level(StartRound(reset_state(e)), level, 1, ans, cl, rl, up)

\* expand_from_node, the body of its iteration loop (before the break)
expand_round(e, level, ans, up, cl, rl) ==
    expand_level(StartRound(e), level, 1, ans, cl, rl, up)

\* build_graph_from_roots, "Add all root papers first"
RECURSIVE add_roots(_, _, _, _)
add_roots(e, root_paper_ids, up, valid_root_ids) ==
    LET Added(r, v) ==
            add_roots(r.e, Tail(root_paper_ids), up,
                      IF r.ret /\ v.valid THEN Append(valid_root_ids, v.id)
                      ELSE valid_root_ids)
    IN  IF root_paper_ids = << >> THEN [e |-> e, valid_root_ids |-> valid_root_ids]
        ELSE Added(add_paper_to_graph(e, Head(root_paper_ids), TRUE, up),
                   validate_paper_id(Head(root_paper_ids)))

\* ------------------------------------------------------------ read-outs
\* sum(dict(self.graph.degree()).values()), over the node list ns
RECURSIVE SumDegrees(_, _)
SumDegrees(e, ns) ==
    IF ns = << >> THEN 0
    ELSE Degree(e, Head(ns)) + SumDegrees(e, Tail(ns))

\* max(dict(self.graph.degree()).values())
MaxDegree(e) ==
    CHOOSE m \in { Degree(e, n) : n \in Range(e.nodes) } :
        \A n \in Range(e.nodes) : Degree(e, n) <= m

\* data.get('citations', 0) of node n
NodeCitations(e, n) == IF e.data[n] = 0 THEN 0 ELSE CitationsOf(e.data[n])

RECURSIVE InsertNode(_, _, _)
InsertNode(e, acc, n) ==
    IF acc = << >> THEN << n >>
    ELSE IF NodeCitations(e, Head(acc)) >= NodeCitations(e, n)
         THEN << Head(acc) >> \o InsertNode(e, Tail(acc), n)
         ELSE << n >> \o acc

\* papers_with_citations.sort(key=lambda x: x['citations'], reverse=True): stable
RECURSIVE SortNodes(_, _, _)
SortNodes(e, s, acc) ==
    IF s = << >> THEN acc ELSE SortNodes(e, Tail(s), InsertNode(e, acc, Head(s)))

\* papers_with_citations[:10]
TopCap == 10

\* get_graph_statistics listing every node
top_papers_uncapped(e) == SortNodes(e, e.nodes, << >>)

\* get_graph_statistics, "Get top papers by citation count"
top_papers(e) == Take(SortNodes(e, e.nodes, << >>), TopCap)

\* GraphService.get_graph_statistics, its counts; the quotient average_degree
\* is kept exact, as numerator over denominator
get_graph_statistics(e) ==
    IF e.nodes = << >>
    THEN [error |-> TRUE, total_papers |-> 0, total_citations |-> 0,
          average_degree |-> [num |-> 0, den |-> 1], max_degree |-> 0,
          top_papers |-> << >>]
    ELSE [error |-> FALSE,
          total_papers |-> Len(e.nodes),
          total_citations |-> Cardinality(e.edges),
          average_degree |-> [num |-> SumDegrees(e, e.nodes), den |-> Len(e.nodes)],
          max_degree |-> MaxDegree(e),
          top_papers |-> top_papers(e)]

\* GraphService.is_paper_in_graph
is_paper_in_graph(e, paper_id) ==
    LET Checked(v) ==
            IF ~ v.valid THEN FALSE
            ELSE v.id \in e.added_papers \/ paper_id \in e.added_papers
    IN  Checked(validate_paper_id(paper_id))

\* GraphService.get_node_info, its degree fields
get_node_info(e, paper_id) ==
    LET Checked(v) ==
            IF ~ v.valid \/ v.id \notin Range(e.nodes)
            THEN [error |-> TRUE, paper_id |-> v.id,
                  degree |-> 0, in_degree |-> 0, out_degree |-> 0]
            ELSE [error |-> FALSE, paper_id |-> v.id,
                  degree |-> Degree(e, v.id),
                  in_degree |-> InDegree(e, v.id),
                  out_degree |-> OutDegree(e, v.id)]
    IN  Checked(validate_paper_id(paper_id))

\* ------------------------------------------------------------ inputs
MaxDown == 1

\* the papers the record source can serve during one handler step
UpSets == { Papers } \cup { Papers \ {p} : p \in 1 .. MaxDown }

\* identifiers a caller may pass: bare, full URL, bare DOI, DOI URL, padded, blank
InputIds ==
    { Bare(p) : p \in Papers }
        \cup { Url(p) : p \in 1 .. NumAlt }
        \cup { Doi(p) : p \in 1 .. NumAlt }
        \cup { DoiUrl(p) : p \in 1 .. NumAlt }
        \cup { << SP, WTok(p) >> : p \in 1 .. NumAlt }
        \cup { << SP >> }

RootIds == { Bare(1), Bare(NumPapers), << SP >> } \cup { Doi(p) : p \in 1 .. NumAlt }

RootLists == UNION { [ 1 .. n -> RootIds ] : n \in 1 .. MaxRoots }

Modes == {"ok", "429", "err"}

\* what the source holds for one frontier paper: its citing and referenced works
Lists(k, m) == UNION { [ 1 .. n -> Papers ] : n \in 0 .. Min(k, m) }

AnsFor(q) ==
    { a \in [cit : Lists(q, MaxList), ref : Lists(q, MaxRefs)] :
        Len(a.cit) + Len(a.ref) <= q }

RECURSIVE AnsSeqs(_, _)
AnsSeqs(n, q) ==
    IF n = 0 THEN { << >> }
    ELSE UNION { { << a >> \o rest :
                     rest \in AnsSeqs(n - 1, q - Len(a.cit) - Len(a.ref)) } :
                 a \in AnsFor(q) }

RECURSIVE Entries(_)
Entries(ans) ==
    IF ans = << >> THEN 0
    ELSE Len(Head(ans).cit) + Len(Head(ans).ref) + Entries(Tail(ans))

\* the source has lists only for works it knows
Known(id) == Resolve(AdapterNormalize(id)) # 0

\* the source lists a frontier paper among its own citing or referenced works
Echo(e, level, ans) ==
    \E i \in 1 .. Len(level) :
        /\ level[i] \in DOMAIN e.data
        /\ e.data[level[i]] \in Range(ans[i].cit) \cup Range(ans[i].ref)

\* the frontier positions the combined lookup has lists for
Served(level) == { i \in 1 .. Len(level) : Resolve(level[i]) # 0 }

\* the papers the source lists, within the limits, for the positions idx
Offered(idx, ans, cl, rl) ==
    UNION { Range(Take(ans[i].cit, cl)) \cup Range(Take(ans[i].ref, rl)) : i \in idx }

\* of the papers offered, those an individual lookup of the round resolves
\* to a record with authors
Resolvable(offered, up) == { p \in offered \cap up : HasAuthors(p) }

\* the papers expand_from_node receives for its frontier: the citing records
\* and the records get_top_reference_papers returns
ExpandOffered(e, level, ans, cl, rl, up) ==
    UNION { Range(get_top_cited_papers(level[i], ans[i].cit, cl))
                \cup Range(get_top_reference_papers(e, level[i], ans[i].ref, rl, up).papers) :
            i \in 1 .. Len(level) }

\* some cache of e holds a record of paper p
Cached(e, p) ==
    \/ \E k \in DOMAIN e.paper_cache : e.paper_cache[k] = p
    \/ \E k \in DOMAIN e.svc_cache : e.svc_cache[k] = p

\* the locals c of a round with what the round was offered, on engine state
\* e: whether a paper without authors was among it, the papers a
\* rate-limited round can resolve, the papers this round can resolve and
\* that are not yet admitted (due), and those whose lookup fails (missed)
Observe(c, e, offered, mode, up) ==
    [c EXCEPT !.authorless = @ \/ \E p \in offered : ~ HasAuthors(p),
              !.owed = IF mode = "429" THEN @ \cup Resolvable(offered, up) ELSE @,
              !.due = { p \in Resolvable(offered, up) : PaperId(p) \notin e.added_papers },
              !.missed = { p \in offered \ up : ~ Cached(e, p) }]

\* batch outcome and availability matter only when the lists are not empty
Weather(ans) ==
    IF Entries(ans) = 0 THEN { [mode |-> "ok", up |-> Papers] }
    ELSE [mode : Modes, up : UpSets]

\* ------------------------------------------------------------ state
VARIABLES
    gs,      \* the GraphService instance (and its adapter's cache)
    pc,      \* "idle", or the loop a running handler is in
    call,    \* the running handler's locals
    ret,     \* what the last finished handler returned, and about which input
    disc,    \* the admissions of the last expansion round
    quota,   \* list entries the source may still hand out
    calls,   \* handler calls made so far
    nid,     \* an identifier under normalisation
    nout,    \* the successive results of validate_paper_id on nid
    thr,     \* per request thread: its add_paper_to_graph call in progress
    now,     \* time.time(), in ticks
    last_call_time,  \* per OpenAlexService instance: its RateLimiter's field
    waiter,  \* per request thread: its position in an adapter call
    sent,    \* the outbound record-source calls made, in order
    params,  \* the parameters of a graph request
    checked, \* what validate_graph_params returned for params
    lk,      \* the single-record lookup under way in the adapter
    batch    \* a get_papers_batch call: its arguments and what it returned

vars == << gs, pc, call, ret, disc, quota, calls, nid, batch, nout,
           thr, now, last_call_time, waiter, sent, params, checked, lk >>

\* what the handlers of the engine, run one at a time, leave alone
aside == << nid, batch, nout, thr, now, last_call_time, waiter, sent, params, checked, lk >>

\* no single-record lookup under way
NoLookup ==
    [op |-> "none", paper_id |-> << >>, pc |-> "idle", attempt |-> 0,
     log |-> << >>, slept |-> << >>, result |-> "none", value |-> 0]

NoCall ==
    [op |-> "none", id |-> << >>, roots |-> << >>, rest |-> << >>,
     iterations |-> 0, cl |-> 0, rl |-> 0, it |-> 0, level |-> << >>,
     idle |-> 0, entries |-> 0, echo |-> FALSE, admitted |-> {}, initial |-> 0,
     authorless |-> FALSE, owed |-> {}, admits |-> 0, due |-> {}, missed |-> {},
     front |-> << >>, lists |-> << >>, seen |-> {}]

NoRet ==
    [op |-> "none", id |-> << >>, roots |-> << >>, ok |-> FALSE, is_root |-> FALSE,
     again |-> FALSE, rounds |-> 0, idle |-> 0, entries |-> 0, echo |-> FALSE,
     admitted |-> {}, authorless |-> FALSE, owed |-> {}, admits |-> 0,
     due |-> {}, missed |-> {}, up |-> {}, front |-> << >>, lists |-> << >>,
     cl |-> 0, rl |-> 0, level |-> << >>, top_papers |-> << >>,
     orph |-> FALSE, nbrs |-> {}, connected |-> {}, orphaned |-> << >>,
     count |-> 0, kind |-> "none"]

\* request threads (Flask serves each request on a thread of its own)
NumThreads == 2
Threads == 1 .. NumThreads

\* the OpenAlexService instances of the process
NumInstances == 2
Instances == 1 .. NumInstances

\* RateLimiter.delay, in ticks
DelayTicks == 2

NoThread ==
    [pc |-> "idle", paper_id |-> << >>, is_root |-> FALSE, normalized_id |-> << >>,
     paper |-> 0, ret |-> FALSE]

NoThreads == [ t \in Threads |-> NoThread ]

NoWaiter == [pc |-> "idle", inst |-> 0, wake |-> 0]

\* no adapter call under way: each RateLimiter as constructed
\* (last_call_time = 0.0), the clock far beyond the delay
NoTraffic ==
    /\ now = DelayTicks
    /\ last_call_time = [ i \in Instances |-> 0 ]
    /\ waiter = [ t \in Threads |-> NoWaiter ]
    /\ sent = << >>
    /\ lk = NoLookup

\* no get_papers_batch call
NoBatch == [pc |-> "idle", paper_ids |-> << >>, mode |-> "ok", up |-> {}, papers |-> {}]

\* no graph request under validation, no batch lookup
NoRequest ==
    /\ params = << >>
    /\ checked = << >>
    /\ batch = NoBatch

Init ==
    /\ gs = EmptyEngine
    /\ pc = "idle"
    /\ call = NoCall
    /\ ret = NoRet
    /\ disc = {}
    /\ quota = MaxEntries
    /\ calls = 0
    /\ nid = << >>
    /\ nout = << >>
    /\ thr = NoThreads
    /\ NoTraffic
    /\ NoRequest

CanCall == pc = "idle" /\ calls < MaxCalls

Returned(c, ok) ==
    [NoRet EXCEPT !.op = c.op, !.id = c.id, !.roots = c.roots, !.ok = ok,
                  !.rounds = c.it, !.idle = c.idle, !.entries = c.entries,
                  !.echo = c.echo,
                  !.admitted = c.admitted, !.authorless = c.authorless,
                  !.owed = c.owed, !.admits = c.admits,
                  !.due = c.due, !.missed = c.missed,
                  !.front = c.front, !.lists = c.lists, !.cl = c.cl, !.rl = c.rl,
                  !.level = c.level]

\* ------------------------------------------------------------ handlers
IterSet == 1 .. MaxIter
LimitSet == 1 .. MaxLimit

Idle == /\ pc' = "idle"
        /\ call' = NoCall

\* GraphService.add_paper_to_graph called directly
AddPaperToGraph ==
    \E paper_id \in InputIds, is_root \in BOOLEAN, up \in UpSets :
        LET Done(r, v) ==
                /\ gs' = r.e
                /\ ret' = [NoRet EXCEPT
                              !.op = "add_paper_to_graph", !.id = paper_id,
                              !.ok = r.ret, !.is_root = is_root, !.up = up,
                              !.again = /\ ret.op = "add_paper_to_graph"
                                        /\ (ret.ok \/ ret.again)
                                        /\ v.valid
                                        /\ validate_paper_id(ret.id).id = v.id]
        IN  /\ CanCall
            /\ Done(add_paper_to_graph(gs, paper_id, is_root, up),
                    validate_paper_id(paper_id))
            /\ calls' = calls + 1
            /\ Idle
            /\ disc' = {}
            /\ UNCHANGED << quota, aside >>

\* GraphService.build_graph_from_roots up to its iteration loop
BuildGraphFromRoots ==
    \E roots \in RootLists, iterations \in IterSet, cl \in LimitSet, rl \in LimitSet,
       up \in UpSets :
        LET Begin(c) ==
                IF c.level = << >>
                THEN /\ ret' = Returned(c, FALSE)
                     /\ Idle
                ELSE /\ ret' = NoRet
                     /\ pc' = "roots"
                     /\ call' = c
            Roots(r) ==
                /\ gs' = r.e
                /\ Begin([NoCall EXCEPT !.op = "build_graph_from_roots", !.roots = roots,
                                        !.iterations = iterations, !.cl = cl, !.rl = rl,
                                        !.level = r.valid_root_ids,
                                        !.admitted = Range(r.valid_root_ids)])
        IN  /\ CanCall
            /\ Roots(add_roots(reset_state(gs), roots, up, << >>))
            /\ calls' = calls + 1
            /\ disc' = {}
            /\ UNCHANGED << quota, aside >>

\* one pass of the iteration loop of build_graph_from_roots; the last returns
RootsRound ==
    \E ans \in AnsSeqs(Len(call.level), quota) :
      \E w \in Weather(ans) :
        LET Loop(c) ==
                IF c.it = c.iterations
                THEN /\ ret' = Returned(c, TRUE)
                     /\ Idle
                ELSE /\ ret' = ret
                     /\ pc' = pc
                     /\ call' = c
            Round(r) ==
                /\ gs' = r.e
                /\ disc' = r.disc
                /\ Loop(Observe(
                        [call EXCEPT
                            !.it = @ + 1,
                            !.level = r.next,
                            !.idle = @ + (IF call.level = << >> THEN 1 ELSE 0),
                            !.entries = @ + Entries(ans),
                            !.echo = @ \/ Echo(gs, call.level, ans),
                            !.admits = @ + Len(r.next),
                            !.front = call.level,
                            !.seen = @ \cup Range(call.level),
                            !.lists = ans],
                        gs, Offered(Served(call.level), ans, call.cl, call.rl),
                        w.mode, w.up))
        IN  /\ pc = "roots"
            /\ Round(roots_round(gs, call.level, ans, w.mode, w.up, call.cl, call.rl))
            /\ quota' = quota - Entries(ans)
            /\ UNCHANGED << calls, aside >>

\* build_graph_from_root up to its iteration loop, for the root c.id
EnterRoot(c, up) ==
    LET Root(r, v) ==
            /\ gs' = r.e
            /\ IF ~ v.valid \/ ~ r.ret
               THEN /\ ret' = Returned(c, FALSE)
                    /\ Idle
               ELSE /\ ret' = NoRet
                    /\ pc' = "root"
                    /\ call' = [c EXCEPT !.level = << v.id >>,
                                         !.admitted = @ \cup {v.id}]
    IN  /\ Root(add_paper_to_graph(reset_state(gs), c.id, TRUE, up),
                validate_paper_id(c.id))
        /\ disc' = {}

\* GraphService.build_graph_from_root
BuildGraphFromRoot ==
    \E root \in RootIds, iterations \in IterSet, cl \in LimitSet, rl \in LimitSet,
       up \in UpSets :
        /\ CanCall
        /\ EnterRoot([NoCall EXCEPT !.op = "build_graph_from_root", !.id = root,
                                    !.roots = << root >>,
                                    !.iterations = iterations, !.cl = cl, !.rl = rl],
                     up)
        /\ calls' = calls + 1
        /\ UNCHANGED << quota, aside >>

\* GraphService.build_graph_from_multiple_roots, its first root
BuildGraphFromMultipleRoots ==
    \E roots \in RootLists, iterations \in IterSet, cl \in LimitSet, rl \in LimitSet,
       up \in UpSets :
        /\ CanCall
        /\ EnterRoot([NoCall EXCEPT !.op = "build_graph_from_multiple_roots",
                                    !.id = Head(roots), !.roots = roots,
                                    !.rest = Tail(roots),
                                    !.iterations = iterations, !.cl = cl, !.rl = rl],
                     up)
        /\ calls' = calls + 1
        /\ UNCHANGED << quota, aside >>

\* build_graph_from_multiple_roots, "for root_id in root_paper_ids": the next root
NextRoot ==
    \E up \in UpSets :
        /\ pc = "multi"
        /\ EnterRoot([call EXCEPT !.id = Head(call.rest), !.rest = Tail(call.rest),
                                  !.it = 0, !.owed = {}, !.due = {}, !.missed = {},
                                  !.seen = {}],
                     up)
        /\ UNCHANGED << quota, calls, aside >>

\* one pass of the iteration loop of build_graph_from_root, with its break
RootRound ==
    \E ans \in AnsSeqs(Len(call.level), quota) :
      \E w \in Weather(ans) :
        LET Loop(c) ==
                IF c.it < c.iterations /\ c.level # << >>
                THEN /\ ret' = ret
                     /\ pc' = pc
                     /\ call' = c
                ELSE IF c.rest # << >>
                THEN /\ ret' = ret
                     /\ pc' = "multi"
                     /\ call' = c
                ELSE /\ ret' = Returned(c, TRUE)
                     /\ Idle
            Round(r) ==
                /\ gs' = r.e
                /\ disc' = r.disc
                /\ Loop(Observe(
                            [call EXCEPT !.it = @ + 1,
                                     !.level = r.next,
                                     !.entries = @ + Entries(ans),
                                     !.echo = @ \/ Echo(gs, call.level, ans),
                                     !.admits = @ + Len(r.next),
                                     !.front = call.level,
                                     !.seen = @ \cup Range(call.level),
                                     !.lists = ans],
                                 gs, Offered(Served(call.level), ans, call.cl, call.rl),
                                 w.mode, w.up))
        IN  /\ pc = "root"
            /\ Round(root_round(gs, call.level, ans, w.mode, w.up, call.cl, call.rl))
            /\ quota' = quota - Entries(ans)
            /\ UNCHANGED << calls, aside >>

\* expand_from_node without its test that the identifier is a node
EnterExpand_any_node(c, e) ==
    LET Checked(v) ==
            IF ~ v.valid
            THEN /\ ret' = Returned(c, c.op = "add_source_node")
                 /\ Idle
            ELSE /\ ret' = NoRet
                 /\ pc' = "expand"
                 /\ call' = [c EXCEPT !.level = << v.id >>, !.initial = Len(e.nodes)]
    IN  Checked(validate_paper_id(c.id))

\* expand_from_node up to its iteration loop, entered with the locals c
EnterExpand(c, e) ==
    LET Checked(v) ==
            IF ~ v.valid \/ v.id \notin Range(e.nodes)
            THEN /\ ret' = Returned(c, c.op = "add_source_node")
                 /\ Idle
            ELSE /\ ret' = NoRet
                 /\ pc' = "expand"
                 /\ call' = [c EXCEPT !.level = << v.id >>, !.initial = Len(e.nodes)]
    IN  Checked(validate_paper_id(c.id))

\* GraphService.expand_from_node
ExpandFromNode ==
    \E paper_id \in InputIds, iterations \in IterSet, cl \in LimitSet, rl \in LimitSet :
        /\ CanCall
        /\ EnterExpand([NoCall EXCEPT !.op = "expand_from_node", !.id = paper_id,
                                      !.iterations = iterations, !.cl = cl, !.rl = rl],
                       gs)
        /\ calls' = calls + 1
        /\ disc' = {}
        /\ UNCHANGED << gs, quota, aside >>

\* GraphService.add_source_node
AddSourceNode ==
    \E paper_id \in InputIds, expand \in BOOLEAN, iterations \in IterSet,
       cl \in LimitSet, rl \in LimitSet, up \in UpSets :
        LET c == [NoCall EXCEPT !.op = "add_source_node", !.id = paper_id,
                                !.iterations = iterations, !.cl = cl, !.rl = rl]
            Added(v, r) ==
                /\ gs' = r.e
                /\ IF ~ r.ret
                   THEN /\ ret' = Returned(c, FALSE)
                        /\ Idle
                   ELSE IF ~ expand
                   THEN /\ ret' = Returned([c EXCEPT !.admitted = {v.id}], TRUE)
                        /\ Idle
                   ELSE EnterExpand([c EXCEPT !.admitted = {v.id}], r.e)
            Checked(v) ==
                IF ~ v.valid \/ v.id \in gs.added_papers
                THEN /\ gs' = gs
                     /\ ret' = Returned(c, FALSE)
                     /\ Idle
                ELSE Added(v, add_paper_to_graph(gs, paper_id, TRUE, up))
        IN  /\ CanCall
            /\ calls' = calls + 1
            /\ disc' = {}
            /\ Checked(validate_paper_id(paper_id))
            /\ UNCHANGED << quota, aside >>

\* expand_from_node going on for as long as there is a next level
expand_continues_while(c) == c.level # << >>

\* expand_from_node: another pass of `for iteration in range(iterations)`
\* follows unless the break on an empty next level is taken
expand_continues(c) == c.it < c.iterations /\ c.level # << >>

\* one pass of the iteration loop of expand_from_node, with its break
ExpandRound ==
    \E ans \in { a \in AnsSeqs(Len(call.level), quota) :
                   \A i \in 1 .. Len(call.level) :
                       Known(call.level[i]) \/ Entries(<< a[i] >>) = 0 } :
      \E up \in IF Entries(ans) = 0 THEN {Papers} ELSE UpSets :
        LET Loop(c, final_paper_count) ==
                IF expand_continues(c)
                THEN /\ ret' = ret
                     /\ pc' = pc
                     /\ call' = c
                ELSE /\ ret' = [Returned(c, TRUE) EXCEPT
                                   !.count = final_paper_count - c.initial]
                     /\ Idle
            Round(r) ==
                /\ gs' = r.e
                /\ disc' = r.disc
                /\ Loop(Observe(
                            [call EXCEPT !.it = @ + 1,
                                         !.level = r.next,
                                         !.entries = @ + Entries(ans),
                                         !.echo = @ \/ Echo(gs, call.level, ans),
                                         !.admits = @ + Len(r.next),
                                         !.front = call.level,
                                         !.seen = @ \cup Range(call.level),
                                         !.lists = ans],
                            gs, ExpandOffered(gs, call.level, ans, call.cl, call.rl, up),
                            "ok", up),
                        Len(r.e.nodes))
        IN  /\ pc = "expand"
            /\ Round(expand_round(gs, call.level, ans, up, call.cl, call.rl))
            /\ quota' = quota - Entries(ans)
            /\ UNCHANGED << calls, aside >>

\* the keys joined to key n by an edge, n itself left out
Neighbours(e, n) ==
    { k \in Range(e.nodes) : k # n /\ (<< k, n >> \in e.edges \/ << n, k >> \in e.edges) }

\* GraphService.remove_node_with_connections
RemoveNodeWithConnections ==
    \E paper_id \in InputIds, remove_orphaned \in BOOLEAN :
        LET Done(r) ==
                /\ gs' = r.e
                /\ ret' = [NoRet EXCEPT
                              !.op = "remove_node_with_connections", !.id = paper_id,
                              !.ok = (r.kind = "ok"), !.kind = r.kind,
                              !.orph = remove_orphaned,
                              !.nbrs = Neighbours(gs, validate_paper_id(paper_id).id),
                              !.connected = r.connected,
                              !.orphaned = r.orphaned]
        IN  /\ CanCall
            /\ Done(remove_node_with_connections(gs, paper_id, remove_orphaned))
            /\ calls' = calls + 1
            /\ Idle
            /\ disc' = {}
            /\ UNCHANGED << quota, aside >>

\* GraphService.clear_graph
ClearGraph ==
    LET Done(r) ==
            /\ gs' = r.e
            /\ ret' = [NoRet EXCEPT !.op = "clear_graph", !.ok = TRUE,
                                    !.count = r.papers_removed]
    IN  /\ CanCall
        /\ Done(clear_graph(gs))
        /\ calls' = calls + 1
        /\ Idle
        /\ disc' = {}
        /\ UNCHANGED << quota, aside >>

Next ==
    \/ AddPaperToGraph
    \/ BuildGraphFromRoots
    \/ RootsRound
    \/ BuildGraphFromRoot
    \/ BuildGraphFromMultipleRoots
    \/ NextRoot
    \/ RootRound
    \/ ExpandFromNode
    \/ AddSourceNode
    \/ ExpandRound
    \/ RemoveNodeWithConnections
    \/ ClearGraph

Spec == Init /\ [][Next]_vars

\* ------------------------------------------------------------ the normaliser alone
MaxApply == 3

Tokens == { OA, DOIURL, DOIPFX, SP, WTok(1), XTok(1) }

IdStrings == UNION { [ 1 .. n -> Tokens ] : n \in 0 .. MaxIdLen }

InitNorm ==
    /\ gs = EmptyEngine
    /\ pc = "idle"
    /\ call = NoCall
    /\ ret = NoRet
    /\ disc = {}
    /\ quota = MaxEntries
    /\ calls = 0
    /\ nid \in IdStrings
    /\ nout = << >>
    /\ thr = NoThreads
    /\ NoTraffic
    /\ NoRequest

\* validate_paper_id applied to nid, then to its own result
Normalise ==
    /\ Len(nout) < MaxApply
    /\ nout' = Append(nout, validate_paper_id(IF nout = << >> THEN nid
                                              ELSE nout[Len(nout)].id))
    /\ UNCHANGED << gs, pc, call, ret, disc, quota, calls, nid, batch, lk, params, checked,
                    thr, now, last_call_time, waiter, sent >>

NextNorm == Normalise

SpecNorm == InitNorm /\ [][NextNorm]_vars

\* ------------------------------------------------------------ the rate limiter
MaxTime == 5
MaxSent == 3

\* an adapter method on instance i reaches self.rate_limiter.wait_if_needed():
\* the clock and last_call_time are read and the sleep, if any, is decided
WaitIfNeeded(t) ==
    \E i \in Instances :
        LET Decide(time_since_last_call) ==
                waiter' = [waiter EXCEPT ![t] =
                              IF time_since_last_call < DelayTicks
                              THEN [pc |-> "sleep", inst |-> i,
                                    wake |-> now + (DelayTicks - time_since_last_call)]
                              ELSE [pc |-> "stamp", inst |-> i, wake |-> 0]]
        IN  /\ waiter[t].pc = "idle"
            /\ Len(sent) + Cardinality({ u \in Threads : waiter[u].pc # "idle" }) < MaxSent
            /\ Decide(now - last_call_time[i])
            /\ UNCHANGED << gs, pc, call, ret, disc, quota, calls, nid, batch, lk, nout, params, checked,
                            thr, now, last_call_time, sent >>

\* time.sleep(sleep_time) returns
WakeUp(t) ==
    /\ waiter[t].pc = "sleep"
    /\ now >= waiter[t].wake
    /\ waiter' = [waiter EXCEPT ![t].pc = "stamp"]
    /\ UNCHANGED << gs, pc, call, ret, disc, quota, calls, nid, batch, lk, nout, params, checked,
                    thr, now, last_call_time, sent >>

\* self.last_call_time = time.time()
Stamp(t) ==
    /\ waiter[t].pc = "stamp"
    /\ last_call_time' = [last_call_time EXCEPT ![waiter[t].inst] = now]
    /\ waiter' = [waiter EXCEPT ![t].pc = "send"]
    /\ UNCHANGED << gs, pc, call, ret, disc, quota, calls, nid, batch, lk, nout, params, checked,
                    thr, now, sent >>

\* the adapter method goes on to self.session.get(...)
Send(t) ==
    /\ waiter[t].pc = "send"
    /\ sent' = Append(sent, [at |-> now, inst |-> waiter[t].inst, thread |-> t])
    /\ waiter' = [waiter EXCEPT ![t] = NoWaiter]
    /\ UNCHANGED << gs, pc, call, ret, disc, quota, calls, nid, batch, lk, nout, params, checked,
                    thr, now, last_call_time >>

\* time passes
Tick ==
    /\ now < MaxTime
    /\ now' = now + 1
    /\ UNCHANGED << gs, pc, call, ret, disc, quota, calls, nid, batch, lk, nout, params, checked,
                    thr, last_call_time, waiter, sent >>

NextRate ==
    \/ \E t \in Threads : WaitIfNeeded(t)
    \/ \E t \in Threads : WakeUp(t)
    \/ \E t \in Threads : Stamp(t)
    \/ \E t \in Threads : Send(t)
    \/ Tick

SpecRate == Init /\ [][NextRate]_vars

\* ------------------------------------------------------------ concurrent requests
\* the identifiers concurrent requests ask for
ConcIds == { Bare(1), Bare(NumPapers), Doi(1), << SP >> }

\* add_paper_to_graph on thread t, its validation and its test of added_papers
AddCheck(t) ==
    \E paper_id \in ConcIds, is_root \in BOOLEAN :
        LET Checked(v) ==
                thr' = [thr EXCEPT ![t] =
                           [NoThread EXCEPT
                               !.pc = IF ~ v.valid \/ v.id \in gs.added_papers
                                      THEN "done" ELSE "lookup",
                               !.paper_id = paper_id,
                               !.is_root = is_root,
                               !.normalized_id = v.id]]
        IN  /\ thr[t].pc = "idle"
            /\ Checked(validate_paper_id(paper_id))
            /\ UNCHANGED << gs, pc, call, ret, disc, quota, calls, nid, batch, lk, nout, params, checked,
                            now, last_call_time, waiter, sent >>

\* add_paper_to_graph on thread t, the record from the cache or the adapter
AddLookup(t) ==
    \E up \in UpSets :
        LET Fetched(r) ==
                IF r.paper = 0
                THEN /\ gs' = r.e
                     /\ thr' = [thr EXCEPT ![t].pc = "done"]
                ELSE /\ gs' = [r.e EXCEPT !.paper_cache =
                                   Put(Put(@, thr[t].normalized_id, r.paper),
                                       PaperId(r.paper), r.paper)]
                     /\ thr' = [thr EXCEPT ![t].pc = "admit", ![t].paper = r.paper]
        IN  /\ thr[t].pc = "lookup"
            /\ IF thr[t].normalized_id \in DOMAIN gs.paper_cache
               THEN /\ gs' = gs
                    /\ thr' = [thr EXCEPT ![t].pc = "admit",
                                          ![t].paper = gs.paper_cache[thr[t].normalized_id]]
               ELSE Fetched(get_paper_by_id(gs, thr[t].paper_id, up))
            /\ UNCHANGED << pc, call, ret, disc, quota, calls, nid, batch, lk, nout, params, checked,
                            now, last_call_time, waiter, sent >>

\* add_paper_to_graph on thread t, the author filter and the insertion
AddAdmit(t) ==
    LET Admitted(r) ==
            /\ gs' = r.e
            /\ thr' = [thr EXCEPT ![t].pc = "done", ![t].ret = r.ret]
    IN  /\ thr[t].pc = "admit"
        /\ Admitted(admit(gs, thr[t].normalized_id, thr[t].paper, thr[t].is_root))
        /\ UNCHANGED << pc, call, ret, disc, quota, calls, nid, batch, lk, nout, params, checked,
                        now, last_call_time, waiter, sent >>

NextConc ==
    \/ \E t \in Threads : AddCheck(t)
    \/ \E t \in Threads : AddLookup(t)
    \/ \E t \in Threads : AddAdmit(t)

SpecConc == Init /\ [][NextConc]_vars

\* ------------------------------------------------------------ graph parameters
\* A parameter value as a request carries it: absent, null, a text that is no
\* number, or the number n (+ a fraction when frac) given as a JSON integer
\* ("int"), a JSON float ("float") or a string of digits ("str").
Absent == [kind |-> "absent", n |-> 0, frac |-> FALSE]

ParamValues(hi) ==
    { Absent,
      [kind |-> "null", n |-> 0, frac |-> FALSE],
      [kind |-> "text", n |-> 0, frac |-> FALSE] }
        \cup [kind : {"int"}, n : {0, 1, hi, hi + 1}, frac : {FALSE}]
        \cup [kind : {"float", "str"}, n : {0, 1, hi, hi + 1}, frac : BOOLEAN]

\* int(params.get(key, default)): int() truncates a float, reads a string of
\* digits, and raises ValueError or TypeError on anything else
int(v, default) ==
    IF v.kind = "absent" THEN [ok |-> TRUE, n |-> default]
    ELSE IF v.kind = "int" \/ v.kind = "float" THEN [ok |-> TRUE, n |-> v.n]
    ELSE IF v.kind = "str" /\ ~ v.frac THEN [ok |-> TRUE, n |-> v.n]
    ELSE [ok |-> FALSE, n |-> 0]

Rejected(msg) == [valid |-> FALSE, msg |-> msg, cleaned |-> << >>]

\* validators.validate_graph_params: (is_valid, error_message, cleaned_params)
validate_graph_params(p) ==
    LET Ref(iterations, cited_limit, r) ==
            IF ~ r.ok THEN Rejected("Reference limit must be a valid integer")
            ELSE IF r.n < 1 \/ r.n > 20
            THEN Rejected("Reference limit must be between 1 and 20")
            ELSE [valid |-> TRUE, msg |-> "",
                  cleaned |-> [iterations |-> iterations, cited_limit |-> cited_limit,
                               ref_limit |-> r.n]]
        Cited(iterations, c) ==
            IF ~ c.ok THEN Rejected("Cited limit must be a valid integer")
            ELSE IF c.n < 1 \/ c.n > 20
            THEN Rejected("Cited limit must be between 1 and 20")
            ELSE Ref(iterations, c.n, int(p.ref_limit, 5))
        Iterations(i) ==
            IF ~ i.ok THEN Rejected("Iterations must be a valid integer")
            ELSE IF i.n < 1 \/ i.n > 5
            THEN Rejected("Iterations must be between 1 and 5")
            ELSE Cited(i.n, int(p.cited_limit, 5))
    IN  Iterations(int(p.iterations, 3))

InitParams ==
    /\ gs = EmptyEngine
    /\ pc = "idle"
    /\ call = NoCall
    /\ ret = NoRet
    /\ disc = {}
    /\ quota = MaxEntries
    /\ calls = 0
    /\ nid = << >>
    /\ nout = << >>
    /\ thr = NoThreads
    /\ NoTraffic
    /\ params \in [iterations : ParamValues(5), cited_limit : ParamValues(20),
                    ref_limit : ParamValues(20)]
    /\ checked = << >>
    /\ batch = NoBatch

\* a graph route validates the parameters of its request
ValidateGraphParams ==
    /\ checked = << >>
    /\ checked' = validate_graph_params(params)
    /\ UNCHANGED << gs, pc, call, ret, disc, quota, calls, nid, batch, lk, nout,
                    thr, now, last_call_time, waiter, sent, params >>

NextParams == ValidateGraphParams

SpecParams == InitParams /\ [][NextParams]_vars

\* ------------------------------------------------------------ batch lookups
MaxPad == 11
MaxTail == 2

\* identifiers the source has no work for
Unknown(k) == [ i \in 1 .. k |-> << WTok(NumPapers + i) >> ]

\* the lists get_papers_batch is called with: distinct identifiers, those the
\* source knows at the end
BatchLists ==
    { Unknown(k) \o tail :
        k \in (MaxPad - 3) .. MaxPad,
        tail \in { t \in UNION { [ 1 .. n -> {Bare(1), Url(2), Doi(1), Bare(NumPapers)} ] :
                                 n \in 0 .. MaxTail } :
                   \A i, j \in 1 .. Len(t) : t[i] = t[j] => i = j } }

InitBatch ==
    /\ gs = EmptyEngine
    /\ pc = "idle"
    /\ call = NoCall
    /\ ret = NoRet
    /\ disc = {}
    /\ quota = MaxEntries
    /\ calls = 0
    /\ nid = << >>
    /\ nout = << >>
    /\ thr = NoThreads
    /\ NoTraffic
    /\ params = << >>
    /\ checked = << >>
    /\ batch \in [pc : {"called"}, paper_ids : BatchLists, mode : Modes,
                  up : UpSets, papers : {{}}]

\* OpenAlexService.get_papers_batch(paper_ids) runs and returns
GetPapersBatch ==
    LET Return(r) ==
            /\ gs' = r.e
            /\ batch' = [batch EXCEPT !.pc = "returned", !.papers = r.papers]
    IN  /\ batch.pc = "called"
        /\ Return(get_papers_batch(gs, batch.paper_ids, batch.mode, batch.up))
        /\ UNCHANGED << pc, call, ret, disc, quota, calls, nid, lk, nout,
                        thr, now, last_call_time, waiter, sent, params, checked >>

NextBatch == GetPapersBatch

SpecBatch == InitBatch /\ [][NextBatch]_vars

\* ------------------------------------------------------------ statistics
MaxNodes == 12

\* a graph of n nodes; the record of node i is data[((i - 1) % 3) + 1], 0 for
\* a node without attributes
StatGraph(n, data) ==
    LET key(i) == << OA, WTok(i) >>
        keys == { key(i) : i \in 1 .. n }
    IN  [EmptyEngine EXCEPT
            !.nodes = [ i \in 1 .. n |-> key(i) ],
            !.data = [ k \in keys |->
                         data[(((CHOOSE i \in 1 .. n : key(i) = k) - 1) % 3) + 1] ],
            !.added_papers = keys]

InitStats ==
    /\ gs \in { StatGraph(n, data) :
                  n \in 0 .. MaxNodes, data \in [ 1 .. 3 -> {0} \cup Papers ] }
    /\ pc = "idle"
    /\ call = NoCall
    /\ ret = NoRet
    /\ disc = {}
    /\ quota = MaxEntries
    /\ calls = 0
    /\ nid = << >>
    /\ nout = << >>
    /\ thr = NoThreads
    /\ NoTraffic
    /\ NoRequest

\* GraphService.get_graph_statistics
GetGraphStatistics ==
    LET Done(stats) ==
            ret' = [NoRet EXCEPT !.op = "get_graph_statistics", !.ok = ~ stats.error,
                                 !.count = stats.total_papers,
                                 !.top_papers = stats.top_papers]
    IN  /\ ret.op = "none"
        /\ Done(get_graph_statistics(gs))
        /\ UNCHANGED << gs, pc, call, disc, quota, calls, aside >>

NextStats == GetGraphStatistics

SpecStats == InitStats /\ [][NextStats]_vars

\* ------------------------------------------------------------ single lookups
\* max_retries of get_paper_by_id and get_paper_references
max_retries == 3

\* the identifiers looked up
LookupIds == {Bare(1), Doi(1), Url(2), Bare(NumPapers)}

RECURSIVE Pow2(_)
Pow2(k) == IF k = 0 THEN 1 ELSE 2 * Pow2(k - 1)

\* get_paper_by_id or get_paper_references is called: get_paper_by_id answers
\* from self.paper_cache at once, otherwise the retry loop is entered
LookupStart ==
    \E op \in {"get_paper_by_id", "get_paper_references"}, paper_id \in LookupIds :
        LET normalized_id == AdapterNormalize(paper_id)
            started == [NoLookup EXCEPT !.op = op, !.paper_id = paper_id]
        IN  /\ lk.pc = "idle"
            /\ lk' = IF op = "get_paper_by_id" /\ normalized_id \in DOMAIN gs.svc_cache
                     THEN [started EXCEPT !.pc = "done", !.result = "Paper",
                                          !.value = gs.svc_cache[normalized_id]]
                     ELSE [started EXCEPT !.pc = "limiter"]
            /\ UNCHANGED << gs, pc, call, ret, disc, quota, calls, nid, batch, nout,
                            thr, now, last_call_time, waiter, sent, params, checked >>

\* self.rate_limiter.wait_if_needed(), the first statement of every attempt
LookupLimiter ==
    /\ lk.pc = "limiter"
    /\ lk' = [lk EXCEPT !.pc = "get", !.log = Append(@, "wait_if_needed")]
    /\ UNCHANGED << gs, pc, call, ret, disc, quota, calls, nid, batch, nout,
                    thr, now, last_call_time, waiter, sent, params, checked >>

\* self.session.get(url) and what follows it in the try block: the request
\* or raise_for_status raises, or the answer is a work, or it is empty
LookupGet ==
    \E answer \in {"raise", "work", "empty"}, ref \in Lists(MaxRefs, MaxRefs) :
        LET normalized_id == AdapterNormalize(lk.paper_id)
            p == Resolve(normalized_id)
            sent_lk == [lk EXCEPT !.log = Append(@, "get")]
            Work ==
                IF lk.op = "get_paper_by_id"
                THEN /\ gs' = [gs EXCEPT !.svc_cache = Put(@, normalized_id, p)]
                     /\ lk' = [sent_lk EXCEPT !.pc = "done", !.result = "Paper",
                                              !.value = p]
                ELSE /\ gs' = gs
                     /\ lk' = [sent_lk EXCEPT
                                  !.pc = "done", !.result = "list",
                                  !.value = Len(get_paper_references(lk.paper_id, ref))]
            Empty ==
                /\ gs' = gs
                /\ lk' = [sent_lk EXCEPT
                             !.pc = "done",
                             !.result = IF lk.op = "get_paper_by_id" THEN "None"
                                        ELSE "list"]
            Raised ==
                /\ gs' = gs
                /\ lk' = IF lk.attempt < max_retries
                         THEN [sent_lk EXCEPT !.pc = "sleep"]
                         ELSE [sent_lk EXCEPT
                                  !.pc = "done",
                                  !.result = IF lk.op = "get_paper_by_id" THEN "None"
                                             ELSE "list"]
        IN  /\ lk.pc = "get"
            /\ answer = "work" => p # 0
            /\ (answer # "work" \/ lk.op = "get_paper_by_id") => ref = << >>
            /\ CASE answer = "work" -> Work
                 [] answer = "empty" -> Empty
                 [] answer = "raise" -> Raised
            /\ UNCHANGED << pc, call, ret, disc, quota, calls, nid, batch, nout,
                            thr, now, last_call_time, waiter, sent, params, checked >>

\* the except block sleeping 2 * attempt seconds
LookupSleep_linear ==
    /\ lk.pc = "sleep"
    /\ lk' = [lk EXCEPT !.pc = "limiter", !.attempt = @ + 1,
                        !.slept = Append(@, 2 * lk.attempt)]
    /\ UNCHANGED << gs, pc, call, ret, disc, quota, calls, nid, batch, nout,
                    thr, now, last_call_time, waiter, sent, params, checked >>

\* time.sleep(2 ** attempt) in the except block, then the next attempt
LookupSleep ==
    /\ lk.pc = "sleep"
    /\ lk' = [lk EXCEPT !.pc = "limiter", !.attempt = @ + 1,
                        !.slept = Append(@, Pow2(lk.attempt))]
    /\ UNCHANGED << gs, pc, call, ret, disc, quota, calls, nid, batch, nout,
                    thr, now, last_call_time, waiter, sent, params, checked >>

\* the caller takes the result
LookupReturn ==
    /\ lk.pc = "done"
    /\ lk' = [lk EXCEPT !.pc = "idle"]
    /\ UNCHANGED << gs, pc, call, ret, disc, quota, calls, nid, batch, nout,
                    thr, now, last_call_time, waiter, sent, params, checked >>

NextLookup ==
    \/ LookupStart
    \/ LookupLimiter
    \/ LookupGet
    \/ LookupSleep
    \/ LookupReturn

\* the calling thread keeps running: no step of the loop waits on anything
\* but the clock
SpecLookup == Init /\ [][NextLookup]_vars /\ WF_vars(NextLookup)

\* ------------------------------------------------------------ properties
BuildOps ==
    {"build_graph_from_roots", "build_graph_from_root", "build_graph_from_multiple_roots"}

MultiRootOps == {"build_graph_from_roots", "build_graph_from_multiple_roots"}

\* the `id` attribute of node k (the record's own identifier); a node made
\* by an edge insertion has no attributes and is known by its key alone
NodeId(e, k) == IF e.data[k] # 0 THEN PaperId(e.data[k]) ELSE k

\* a handler has just returned r: the step from an idle engine that made call
\* number calls + 1 and left the result r
Finished(op) ==
    /\ pc = "idle"
    /\ pc' = "idle"
    /\ calls' = calls + 1
    /\ ret'.op = op

\* C1: once add_paper_to_graph has admitted a paper, every call that follows
\* it directly with an identifier normalizing to the same canonical
\* identifier returns False and leaves the nodes, their data, the edges and
\* the added-identifiers set as they were.
C1_SecondAddIsNoOp ==
    [][ (Finished("add_paper_to_graph") /\ ret'.again)
            => /\ ~ ret'.ok
               /\ gs'.nodes = gs.nodes
               /\ gs'.data = gs.data
               /\ gs'.edges = gs.edges
               /\ gs'.added_papers = gs.added_papers ]_vars

C1_Witness ==
    /\ pc = "idle"
    /\ ret.op = "add_paper_to_graph"
    /\ ret.again
    /\ validate_paper_id(ret.id).id \in Range(gs.nodes)

\* the three input forms: bare native id, DOI starting with '10.', full URL
InputForm(s) ==
    \/ s = << WTok(1) >>
    \/ s = << DOIPFX, XTok(1) >>
    \/ s = << OA, WTok(1) >>

\* C2: validate_paper_id applied to the normalized form of a valid input in
\* one of the three input forms returns that normalized form unchanged.
C2_NormalizeIdempotent ==
    (InputForm(nid) /\ Len(nout) >= 2 /\ nout[1].valid)
        => (nout[2].valid /\ nout[2].id = nout[1].id)

\* C3: after a build or an expand_from_node call no two graph nodes have the
\* same canonical identifier and no ordered pair has been given an edge twice.
C3_DedupInvariant ==
    (pc = "idle" /\ ret.op \in BuildOps \cup {"expand_from_node"} /\ ret.ok)
        => /\ \A k1, k2 \in Range(gs.nodes) :
                  k1 # k2 => NodeId(gs, k1) # NodeId(gs, k2)
           /\ \A ed \in DOMAIN gs.eins : gs.eins[ed] <= 1

\* C4: no edge is a self-loop, by key or by the paper its endpoints stand
\* for, also when the source lists a frontier paper among its own citing or
\* referenced works.
C4_NoSelfLoops ==
    \A ed \in gs.edges : ed[1] # ed[2] /\ NodeId(gs, ed[1]) # NodeId(gs, ed[2])

C4_Witness ==
    /\ pc = "idle"
    /\ ret.echo
    /\ gs.edges # {}

\* C5: after every expansion round, a paper C admitted as citing frontier
\* paper P has the edge C -> P and not P -> C, and a paper R admitted as a
\* reference of P has the edge P -> R and not R -> P.
C5_EdgeDirection ==
    \A d \in disc :
        IF d.kind = "citing"
        THEN << d.c, d.p >> \in gs.edges /\ << d.p, d.c >> \notin gs.edges
        ELSE << d.p, d.c >> \in gs.edges /\ << d.c, d.p >> \notin gs.edges

\* C6: when a multi-root build returns a snapshot, every root it admitted is
\* a node of the graph (what an earlier root brought in is still there).
C6_MultiRootSharedGraph ==
    (pc = "idle" /\ ret.op \in MultiRootOps /\ ret.ok)
        => ret.admitted \subseteq Range(gs.nodes)

\* C7: a multi-root build returns an error only when it admitted none of
\* its roots.
C7_ErrorOnlyIfNoRoot ==
    (pc = "idle" /\ ret.op \in MultiRootOps /\ ~ ret.ok) => ret.admitted = {}

\* C8: an expansion runs no round on an empty frontier, and a single root
\* for which the source lists nothing gives a graph of 1 node and 0 edges.
C8_EarlyTermination ==
    (pc = "idle" /\ ret.op \in BuildOps \cup {"expand_from_node"} /\ ret.ok)
        => /\ ret.idle = 0
           /\ (ret.op \in BuildOps /\ Len(ret.roots) = 1 /\ ret.entries = 0)
                 => (Len(gs.nodes) = 1 /\ gs.edges = {})

\* C9: after remove_node_with_connections(x, remove_orphaned = True) has
\* removed x, no former neighbour of x is left in the graph with degree zero.
C9_OrphanSweep ==
    (pc = "idle" /\ ret.op = "remove_node_with_connections" /\ ret.ok /\ ret.orph)
        => \A n \in ret.nbrs : n \in Range(gs.nodes) => Degree(gs, n) > 0

\* C10: remove_node_with_connections(x, remove_orphaned = False) on a node x
\* removes x and the edges touching x and nothing else: the other nodes keep
\* their order and data, the other edges stay, and the canonical identifier
\* of x leaves the added-identifiers set, which otherwise keeps its members.
C10_RemoveFrame ==
    [][ (Finished("remove_node_with_connections") /\ ret'.ok /\ ~ ret'.orph)
            => LET x == validate_paper_id(ret'.id).id
               IN  /\ x \in Range(gs.nodes)
                   /\ gs'.nodes = SeqWithout(gs.nodes, x)
                   /\ gs'.edges = { ed \in gs.edges : ed[1] # x /\ ed[2] # x }
                   /\ \A k \in Range(gs'.nodes) : gs'.data[k] = gs.data[k]
                   /\ gs'.added_papers = gs.added_papers \ {x} ]_vars

C10_Witness ==
    /\ pc = "idle"
    /\ ret.op = "remove_node_with_connections"
    /\ ret.ok
    /\ ~ ret.orph
    /\ \E a, b \in ret.nbrs : a # b
    /\ gs.nodes # << >>

\* C11: a paper without authors is never admitted as a non-root node: no
\* admission of an expansion round (build_graph_from_roots,
\* build_graph_from_root, expand_from_node) is of such a paper, even when the
\* source lists it within the limit, and after a build every node without
\* authors is one of the roots the call admitted.
C11_StrictAuthors ==
    /\ \A d \in disc : d.c \in Range(gs.nodes) /\ HasAuthors(gs.data[d.c])
    /\ (pc = "idle" /\ ret.op \in BuildOps /\ ret.ok)
           => \A k \in Range(gs.nodes) :
                  (gs.data[k] # 0 /\ ~ HasAuthors(gs.data[k])) => k \in ret.admitted

\* a build that was offered a paper without authors as a candidate and holds
\* a paper without authors as a root
C11_Witness ==
    /\ pc = "idle"
    /\ ret.op \in BuildOps
    /\ ret.ok
    /\ ret.authorless
    /\ ret.admits > 0
    /\ \E k \in Range(gs.nodes) \cap ret.admitted :
           gs.data[k] # 0 /\ ~ HasAuthors(gs.data[k])

\* C12: when the batch lookup of a round of build_graph_from_roots or
\* build_graph_from_root is answered with HTTP 429, the build carries on and
\* every candidate of that round that an individual lookup resolves (to a
\* record with authors) is a paper of the graph from then on until the call
\* returns.
C12_RateLimitedBatch ==
    \A p \in call.owed \cup (IF pc = "idle" /\ ret.op \in BuildOps THEN ret.owed ELSE {}) :
        \E k \in Range(gs.nodes) : gs.data[k] = p

\* a build returned after a rate-limited round that offered a resolvable paper
C12_Witness ==
    /\ pc = "idle"
    /\ ret.op \in BuildOps
    /\ ret.ok
    /\ ret.owed # {}
    /\ ret.admits > 0

\* C13: clear_graph leaves the graph, the added-identifiers set, the cache
\* add_paper_to_graph consults and the adapter's cache empty, and returns as
\* papers_removed the number of nodes the graph had.
C13_ClearEmptiesAll ==
    [][ Finished("clear_graph")
            => /\ gs'.nodes = << >>
               /\ gs'.edges = {}
               /\ gs'.added_papers = {}
               /\ gs'.paper_cache = NoFn
               /\ gs'.svc_cache = NoFn
               /\ ret'.count = Len(gs.nodes) ]_vars

\* the papers the identifiers of a root list name at the source
RootPapers(roots) ==
    { Resolve(AdapterNormalize(roots[i])) : i \in 1 .. Len(roots) } \ {0}

\* C14: a build starts from reset engine state: when build_graph_from_roots,
\* build_graph_from_root or build_graph_from_multiple_roots has added its
\* roots, the graph, the added-identifiers set, the engine's paper cache and
\* the adapter's paper cache hold papers of this call's roots only.
C14_BuildStartsReset ==
    [][ (calls' = calls + 1 /\ (call'.op \in BuildOps \/ ret'.op \in BuildOps))
            => LET mine == RootPapers(IF pc' = "idle" THEN ret'.roots ELSE call'.roots)
               IN  /\ \A k \in Range(gs'.nodes) : gs'.data[k] \in mine
                   /\ \A k \in gs'.added_papers : Resolve(k) \in mine
                   /\ \A k \in DOMAIN gs'.paper_cache : gs'.paper_cache[k] \in mine
                   /\ \A k \in DOMAIN gs'.svc_cache : gs'.svc_cache[k] \in mine ]_vars

\* C15: expand_from_node does not reset the graph: each pass of its loop
\* keeps every node (with its data) and every edge and never shrinks the
\* graph, and the new_papers_added it returns, final_papers - initial_papers,
\* is the number of papers admitted during the call.
C15_ExpandOnlyGrows ==
    [][ pc = "expand"
            => /\ \A k \in Range(gs.nodes) :
                      k \in Range(gs'.nodes) /\ gs'.data[k] = gs.data[k]
               /\ gs.edges \subseteq gs'.edges
               /\ Len(gs'.nodes) >= Len(gs.nodes)
               /\ pc' = "idle" => /\ ret'.count = ret'.admits
                                  /\ ret'.count >= 0 ]_vars

\* expand_from_node returned after adding papers to a graph of several nodes
C15_Witness ==
    /\ pc = "idle"
    /\ ret.op = "expand_from_node"
    /\ ret.ok
    /\ ret.count > 0
    /\ Len(gs.nodes) >= ret.count + 2
    /\ Cardinality(gs.edges) >= ret.count + 1

\* C16: remove_node_with_connections and expand_from_node called with an
\* identifier that is invalid or is not a node return at once with an error
\* value (for the removal: "invalid" or "absent") and leave the graph, the
\* added-identifiers set and both caches as they were.
C16_BadIdentifierNoEffect ==
    [][ (/\ calls' = calls + 1
         /\ \/ call'.op = "expand_from_node"
            \/ ret'.op \in {"expand_from_node", "remove_node_with_connections"})
            => LET v == validate_paper_id(IF pc' = "idle" THEN ret'.id ELSE call'.id)
               IN  (~ v.valid \/ v.id \notin Range(gs.nodes))
                       => /\ pc' = "idle"
                          /\ ~ ret'.ok
                          /\ ret'.op = "remove_node_with_connections"
                                 => ret'.kind \in {"invalid", "absent"}
                          /\ gs' = gs ]_vars

\* one of the two operations refused a well-formed identifier that is not a
\* node of a graph that has nodes and cached records
C16_Witness ==
    /\ pc = "idle"
    /\ ret.op \in {"expand_from_node", "remove_node_with_connections"}
    /\ ~ ret.ok
    /\ validate_paper_id(ret.id).valid
    /\ validate_paper_id(ret.id).id \notin Range(gs.nodes)
    /\ gs.nodes # << >>
    /\ gs.paper_cache # NoFn

\* C17: both endpoints of every edge are admitted nodes: graph nodes that
\* carry the paper data add_paper_to_graph gives a node and whose key is in
\* the added-identifiers set.
C17_EdgeEndpointsAdmitted ==
    \A ed \in gs.edges :
        \A n \in {ed[1], ed[2]} :
            /\ n \in Range(gs.nodes)
            /\ gs.data[n] # 0
            /\ n \in gs.added_papers

\* C18: in every graph state get_node_info reports, for each node it
\* answers for, degree = in_degree + out_degree, and get_graph_statistics
\* reports an average_degree whose product with the number of nodes is the
\* sum of the node degrees, which is twice the number of edges, and a
\* max_degree that is the largest node degree.
C18_DegreeStatistics ==
    LET stats == get_graph_statistics(gs)
    IN  /\ \A id \in InputIds \cup Range(gs.nodes) :
               LET info == get_node_info(gs, id)
               IN  ~ info.error => info.degree = info.in_degree + info.out_degree
        /\ ~ stats.error
              => /\ stats.average_degree.num * stats.total_papers
                       = 2 * Cardinality(gs.edges) * stats.average_degree.den
                 /\ stats.average_degree.num
                       = Cardinality({ x \in gs.edges \X {1, 2} :
                                          x[1][x[2]] \in Range(gs.nodes) })
                 /\ \A n \in Range(gs.nodes) :
                        Cardinality({ ed \in gs.edges : n \in {ed[1], ed[2]} })
                            <= stats.max_degree
                 /\ \E n \in Range(gs.nodes) :
                        Cardinality({ x \in gs.edges \X {1, 2} : x[1][x[2]] = n })
                            = stats.max_degree

\* a graph of several nodes that kept an edge after a node was removed
C18_Witness ==
    /\ pc = "idle"
    /\ ret.op = "remove_node_with_connections"
    /\ ret.ok
    /\ get_graph_statistics(gs).max_degree >= 1
    /\ get_graph_statistics(gs).total_papers >= 2

\* C19: any two outbound record-source calls of the process, whichever
\* thread or OpenAlexService instance makes them, are at least the limiter's
\* delay apart.
C19_ProcessWideSpacing ==
    \A i, j \in DOMAIN sent :
        i < j => sent[j].at - sent[i].at >= DelayTicks

\* C20: two add_paper_to_graph calls of concurrent requests for the same
\* identifier do not both return True, and no node key is inserted twice.
C20_AtomicCheckThenInsert ==
    /\ \A t, u \in Threads :
           (/\ t # u
            /\ thr[t].pc = "done"
            /\ thr[u].pc = "done"
            /\ thr[t].normalized_id = thr[u].normalized_id)
               => ~ (thr[t].ret /\ thr[u].ret)
    /\ \A k \in DOMAIN gs.nins : gs.nins[k] <= 1

\* C21: a candidate whose lookup fails does not stop a round: after every
\* round of an expansion, each offered paper the source could serve (with
\* authors, not yet admitted) was admitted in this round and its edge is in
\* the graph, while no paper whose lookup failed was admitted or is in the
\* next frontier.
C21_FailureDoesNotAbort ==
    /\ \A p \in call.due \cup ret.due :
           \E d \in disc : /\ d.c \in Range(gs.nodes)
                           /\ gs.data[d.c] = p
                           /\ << d.s, d.t >> \in gs.edges
    /\ \A p \in call.missed \cup ret.missed :
           /\ PaperId(p) \notin Range(call.level)
           /\ \A d \in disc : d.c # PaperId(p) /\ gs.data[d.c] # p

\* an expansion returned after a round that offered both a paper whose
\* lookup failed and a paper that was admitted
C21_Witness ==
    /\ pc = "idle"
    /\ ret.ok
    /\ ret.missed # {}
    /\ ret.due # {}
    /\ disc # {}

\* an identifier with nothing but blanks in it (the empty one included)
Blank(s) == \A i \in 1 .. Len(s) : s[i] = SP

\* C22: validate_paper_id gives (False, "") for an empty or blank input and
\* otherwise (True, r), where r is the input behind 'https://doi.org/' when
\* the input starts with '10.', the input itself when it starts with
\* 'https://openalex.org/', and the input behind 'https://openalex.org/' in
\* every other case.
C22_DocumentedResult ==
    Len(nout) >= 1
        => nout[1] = IF Blank(nid) THEN [valid |-> FALSE, id |-> << >>]
                     ELSE IF Head(nid) = DOIPFX
                          THEN [valid |-> TRUE, id |-> << DOIURL >> \o nid]
                     ELSE IF Head(nid) = OA THEN [valid |-> TRUE, id |-> nid]
                     ELSE [valid |-> TRUE, id |-> << OA >> \o nid]

\* C22 as amended: the result is built from the input without its leading
\* and trailing blanks: it is valid exactly when the input is not blank, it
\* ends with the input's non-blank core, and what stands before the core is
\* 'https://doi.org/' when the core starts with '10.', nothing when the core
\* starts with 'https://openalex.org/', and 'https://openalex.org/' otherwise.
C22_StrippedResult ==
    Len(nout) >= 1
        => LET r == nout[1]
               first == CHOOSE i \in 1 .. Len(nid) + 1 :
                            /\ i <= Len(nid) => nid[i] # SP
                            /\ \A j \in 1 .. (i - 1) : nid[j] = SP
               last == CHOOSE i \in 0 .. Len(nid) :
                            /\ i >= 1 => nid[i] # SP
                            /\ \A j \in (i + 1) .. Len(nid) : nid[j] = SP
               core == SubSeq(nid, first, last)
           IN  /\ r.valid <=> ~ Blank(nid)
               /\ ~ r.valid => r.id = << >>
               /\ r.valid =>
                      /\ Len(r.id) >= Len(core)
                      /\ SubSeq(r.id, Len(r.id) - Len(core) + 1, Len(r.id)) = core
                      /\ SubSeq(r.id, 1, Len(r.id) - Len(core))
                            = IF core[1] = DOIPFX THEN << DOIURL >>
                              ELSE IF core[1] = OA THEN << >>
                              ELSE << OA >>

\* a DOI given with a blank before and after it was normalised
C22_Witness ==
    /\ nid = << SP, DOIPFX, SP >>
    /\ Len(nout) >= 1
    /\ nout[1].valid
    /\ nout[1].id = << DOIURL, DOIPFX >>

\* the parameter value v is absent or an integer from lo to hi
IntegerIn(v, lo, hi) ==
    \/ v.kind = "absent"
    \/ v.kind \in {"int", "float", "str"} /\ ~ v.frac /\ lo <= v.n /\ v.n <= hi

\* the value validate_graph_params is to return for v: the default when absent
ValueOf(v, default) == IF v.kind = "absent" THEN default ELSE v.n

\* C23: validate_graph_params accepts exactly when iterations is an integer
\* in 1..5 and cited_limit and ref_limit are integers in 1..20, each absent
\* one standing for its default 3, 5, 5; on acceptance it returns the three
\* values and an empty message, on rejection False, a message about the
\* first offending parameter and empty cleaned params.
C23_GraphParams ==
    checked # << >>
        => LET okI == IntegerIn(params.iterations, 1, 5)
               okC == IntegerIn(params.cited_limit, 1, 20)
               okR == IntegerIn(params.ref_limit, 1, 20)
           IN  /\ checked.valid <=> (okI /\ okC /\ okR)
               /\ checked.valid
                     => /\ checked.msg = ""
                        /\ checked.cleaned =
                              [iterations |-> ValueOf(params.iterations, 3),
                               cited_limit |-> ValueOf(params.cited_limit, 5),
                               ref_limit |-> ValueOf(params.ref_limit, 5)]
               /\ ~ checked.valid
                     => /\ checked.cleaned = << >>
                        /\ checked.msg \in
                              IF ~ okI THEN {"Iterations must be between 1 and 5",
                                             "Iterations must be a valid integer"}
                              ELSE IF ~ okC
                              THEN {"Cited limit must be between 1 and 20",
                                    "Cited limit must be a valid integer"}
                              ELSE {"Reference limit must be between 1 and 20",
                                    "Reference limit must be a valid integer"}

Current == IF pc = "idle" THEN ret ELSE call

\* the admitted key c is one of the entries of the source list
Among(c, entries) ==
    \E q \in Range(entries) : validate_paper_id(PaperId(q)).id = c

\* C25: in every round of every expansion entry point, a paper admitted as
\* citing frontier paper P is among the first top_cited_limit entries of the
\* source's citing list for P, and a paper admitted as a reference of P is
\* among the first top_references_limit entries of P's reference list.
C25_SourceOrderLimit ==
    \A d \in disc :
        \E i \in 1 .. Len(Current.front) :
            /\ d.p \in {Current.front[i], validate_paper_id(Current.front[i]).id}
            /\ d.kind = "citing" => Among(d.c, Take(Current.lists[i].cit, Current.cl))
            /\ d.kind = "reference" => Among(d.c, Take(Current.lists[i].ref, Current.rl))

\* the keys of the papers the step added to the graph, in the order they
\* were added (a node add_edge creates for a missing endpoint has no paper)
NewNodes ==
    SelectSeq(gs'.nodes, LAMBDA k : gs'.data[k] # 0 /\ k \notin Range(gs.nodes))

\* the round that ends leaves as frontier the keys it admitted, once each
FrontierOfRound ==
    /\ Current'.level = NewNodes
    /\ \A i, j \in 1 .. Len(Current'.level) :
           Current'.level[i] = Current'.level[j] => i = j
    /\ \A i \in 1 .. Len(Current'.level) :
           /\ Current'.level[i] \in gs'.added_papers \ gs.added_papers
           /\ gs'.data[Current'.level[i]] # 0

\* C26: at the end of each round the next frontier is exactly the sequence of
\* the papers newly admitted during the round, in the order of their
\* admission and without duplicates; a paper that was rejected or already in
\* the graph is not in it.
C26_NextFrontier ==
    [][ (pc = "roots" \/ pc = "root" \/ pc = "expand") => FrontierOfRound ]_vars

\* a round ended with a next frontier although one of the candidates the
\* source listed within the limits for its frontier was not admitted
C26_Witness ==
    /\ Current.level # << >>
    /\ \E i \in 1 .. Len(Current.lists) :
           \E q \in Range(Take(Current.lists[i].cit, Current.cl))
                        \cup Range(Take(Current.lists[i].ref, Current.rl)) :
               \A j \in 1 .. Len(Current.level) :
                   Current.level[j] # validate_paper_id(PaperId(q)).id

\* the outbound attempts of the lookup so far
Attempts == { i \in 1 .. Len(lk.log) : lk.log[i] = "get" }

RetryBounded ==
    /\ Cardinality(Attempts) <= 4
    /\ \A i \in Attempts : i > 1 /\ lk.log[i - 1] = "wait_if_needed"
    /\ Len(lk.slept) <= 3
    /\ \A k \in 1 .. Len(lk.slept) : lk.slept[k] = << 1, 2, 4 >>[k]
    /\ lk.pc = "sleep" => Len(lk.slept) = Cardinality(Attempts) - 1
    /\ (lk.pc = "done" /\ Attempts # {}) => Len(lk.slept) = Cardinality(Attempts) - 1
    /\ lk.pc = "done" =>
           IF lk.op = "get_paper_by_id"
           THEN \/ lk.result = "Paper" /\ lk.value \in Papers
                \/ lk.result = "None"
           ELSE lk.result = "list" /\ lk.value \in 0 .. MaxRefs

\* C27: a single-record lookup makes at most 4 outbound attempts, each right
\* after the rate limiter, sleeps 1, 2 and 4 seconds after the first, second
\* and third failed attempt and not after the last, and always ends with a
\* Paper or list, or with None or the empty list.
C27_BoundedRetry ==
    /\ []RetryBounded
    /\ (lk.pc # "idle") ~> (lk.pc = "done")

\* a lookup whose four attempts all failed, with the three sleeps between them
C27_Witness ==
    /\ lk.pc = "done"
    /\ Cardinality(Attempts) = 4
    /\ lk.slept = << 1, 2, 4 >>
    /\ lk.result \in {"None", "list"}

\* the work the source holds for a requested identifier, 0 for none
Requested(i) == Resolve(AdapterNormalize(batch.paper_ids[i]))

\* C28: when the batch query is answered with 429, get_papers_batch returns
\* the papers that individual lookups of the first 10 requested identifiers
\* resolve, and no lookup is made for the 11th and later identifiers.
C28_IndividualFallback ==
    (batch.pc = "returned" /\ batch.mode = "429") =>
        /\ batch.papers =
               { p \in batch.up :
                   \E i \in 1 .. Min(10, Len(batch.paper_ids)) : Requested(i) = p }
        /\ \A i \in 11 .. Len(batch.paper_ids) :
               AdapterNormalize(batch.paper_ids[i]) \in DOMAIN gs.svc_cache
                   => \E j \in 1 .. 10 : batch.paper_ids[j] = batch.paper_ids[i]

\* a rate-limited batch returned papers while a work the source could serve,
\* requested in 11th or later place, is not among them
C28_Witness ==
    /\ batch.pc = "returned"
    /\ batch.mode = "429"
    /\ batch.papers # {}
    /\ \E i \in 11 .. Len(batch.paper_ids) :
           Requested(i) \in batch.up \ batch.papers

\* the records the citing-papers queries of the round just run returned
CitingRecords ==
    UNION { Range(get_top_cited_papers(Current'.front[i], Current'.lists[i].cit,
                                       Current'.cl)) :
            i \in 1 .. Len(Current'.front) }

\* C29: once a paper has been obtained from the source, here by the
\* citing-papers query of an expansion round, a later get_paper_by_id for it
\* is served from the cache: it returns the paper without any outbound call,
\* that is, also when the source delivers nothing.
C29_SharedCache ==
    [][ pc = "expand"
            => \A q \in CitingRecords :
                   get_paper_by_id(gs', PaperId(q), {}).paper = q ]_vars

\* C30: remove_node_with_connections(x, remove_orphaned=True) removes, besides
\* x, only nodes whose degree became zero through the removal of x: a node
\* that had degree zero before the call stays in the graph, and
\* orphaned_nodes_removed lists exactly the nodes the removal orphaned.
C30_OrphanSweep ==
    [][ (Finished("remove_node_with_connections") /\ ret'.ok /\ ret'.orph)
            => LET x == validate_paper_id(ret'.id).id
                   orphans == { k \in Range(gs.nodes) \ {x} :
                                  /\ Degree(gs, k) > 0
                                  /\ \A ed \in gs.edges :
                                         (ed[1] = k \/ ed[2] = k) => (ed[1] = x \/ ed[2] = x) }
               IN  /\ \A k \in Range(gs.nodes) \ {x} :
                          Degree(gs, k) = 0 => k \in Range(gs'.nodes)
                   /\ Range(ret'.orphaned) = orphans ]_vars

\* the place of node n in the node list
Place(n) == CHOOSE i \in 1 .. Len(gs.nodes) : gs.nodes[i] = n

\* C31: top_papers has min(10, |nodes|) nodes in non-increasing order of
\* citations, nodes with equal citations in the order of the node list, and
\* no node left out has more citations than a node listed.
C31_TopPapers ==
    (ret.op = "get_graph_statistics" /\ ret.ok) =>
        LET top == ret.top_papers
        IN  /\ Len(top) = Min(10, Len(gs.nodes))
            /\ Range(top) \subseteq Range(gs.nodes)
            /\ \A i, j \in 1 .. Len(top) :
                   i < j => \/ NodeCitations(gs, top[i]) > NodeCitations(gs, top[j])
                            \/ /\ NodeCitations(gs, top[i]) = NodeCitations(gs, top[j])
                               /\ Place(top[i]) < Place(top[j])
            /\ \A n \in Range(gs.nodes) \ Range(top) :
                   \A t \in Range(top) : NodeCitations(gs, n) <= NodeCitations(gs, t)

\* statistics of a graph of more than 10 nodes: a late node with many
\* citations is listed, an early node with fewer is left out
C31_Witness ==
    /\ ret.op = "get_graph_statistics"
    /\ Len(gs.nodes) > 10
    /\ gs.nodes[Len(gs.nodes)] \in Range(ret.top_papers)
    /\ \E i \in 1 .. 9 : gs.nodes[i] \notin Range(ret.top_papers)

\* a step of a running call returns after no more rounds than `iterations`,
\* or goes on to the next root, or ends one more of the call's rounds
RoundProgress ==
    pc # "idle" =>
        \/ pc' = "idle" /\ ret'.rounds <= call.iterations
        \/ Len(call'.rest) < Len(call.rest)
        \/ /\ call'.rest = call.rest
           /\ call'.iterations = call.iterations
           /\ call'.it = call.it + 1

\* C32: every expansion call runs at most `iterations` rounds and then
\* returns, whatever the source answers, also when the source lists a frontier
\* paper among its own citing or referenced works and when lookups fail: the
\* rounds of a call never exceed `iterations`, and every step of a running
\* call ends the call, takes up the next root, or ends one more round, so the
\* pair (roots left, rounds left) falls with every step.
C32_ExpansionTerminates ==
    /\ [](call.it <= call.iterations)
    /\ [][RoundProgress]_vars

\* an expansion returned after all its rounds although the source listed a
\* frontier paper among that paper's own citing or referenced works
C32_Witness ==
    /\ pc = "idle"
    /\ ret.op \in {"build_graph_from_roots", "build_graph_from_root", "expand_from_node"}
    /\ ret.ok
    /\ ret.echo
    /\ ret.rounds = MaxIter

\* the nodes joined to the nodes of s by paths of edges, direction ignored
RECURSIVE Grow(_, _)
Grow(e, s) ==
    LET t == s \cup { k \in Range(e.nodes) :
                        \E ed \in e.edges : \/ ed[1] \in s /\ ed[2] = k
                                            \/ ed[2] \in s /\ ed[1] = k }
    IN  IF t = s THEN s ELSE Grow(e, t)

\* the weakly connected component of node n
Component(e, n) == Grow(e, {n})

\* build_graph_from_roots or build_graph_from_root has just returned a snapshot
BuiltSnapshot ==
    /\ pc = "idle"
    /\ ret.op \in {"build_graph_from_roots", "build_graph_from_root"}
    /\ ret.ok

\* one edge for each node that is not an admitted root, no self-loop and no
\* pair of opposite edges, and one admitted root in every component
ForestOfRoots ==
    /\ Cardinality(gs.edges) = Len(gs.nodes) - Cardinality(ret.admitted)
    /\ \A ed \in gs.edges : ed[1] # ed[2] /\ << ed[2], ed[1] >> \notin gs.edges
    /\ \A k \in Range(gs.nodes) :
           Cardinality(Component(gs, k) \cap ret.admitted) = 1

\* a round of a build records no edge between two nodes the graph had
EdgeAtAdmission ==
    (pc = "roots" \/ pc = "root")
        => \A ed \in gs'.edges \ gs.edges :
               ed[1] \notin Range(gs.nodes) \/ ed[2] \notin Range(gs.nodes)

\* C33: an edge is created only when a paper is admitted: right after
\* build_graph_from_roots or build_graph_from_root returns a snapshot,
\* |edges| = |nodes| - |admitted roots|, the graph is a forest when direction
\* is ignored with exactly one admitted root in each weakly connected
\* component, and no round records an edge between two nodes already there.
C33_EdgePerAdmission ==
    /\ [](BuiltSnapshot => ForestOfRoots)
    /\ [][EdgeAtAdmission]_vars

\* the graph holds a node for the paper an identifier names: a node whose key
\* or whose record id is the identifier or its canonical form, or whose
\* record is the one the source returns for the identifier
HoldsNodeFor(e, paper_id) ==
    LET v == validate_paper_id(paper_id)
    IN  /\ v.valid
        /\ \E k \in Range(e.nodes) :
               \/ k \in {v.id, paper_id}
               \/ /\ e.data[k] # 0
                  /\ \/ PaperId(e.data[k]) \in {v.id, paper_id}
                     \/ e.data[k] = Resolve(AdapterNormalize(paper_id))

\* C34: between calls the added-identifiers set and the graph agree: every
\* node key is in the set, every identifier in the set is the key or the
\* record id of a node of the graph, and is_paper_in_graph(id) is true
\* exactly when the graph holds a node for the paper that id names.
C34_SetMatchesGraph ==
    pc = "idle" =>
        /\ \A k \in Range(gs.nodes) : k \in gs.added_papers
        /\ \A id \in gs.added_papers :
               \E k \in Range(gs.nodes) :
                   id = k \/ (gs.data[k] # 0 /\ id = PaperId(gs.data[k]))
        /\ \A id \in InputIds : is_paper_in_graph(gs, id) <=> HoldsNodeFor(gs, id)

\* the step is a call of add_paper_to_graph or add_source_node, up to its
\* return or to the start of the expansion add_source_node was asked for
AddCall ==
    /\ pc = "idle"
    /\ calls' = calls + 1
    /\ \/ ret'.op \in {"add_paper_to_graph", "add_source_node"}
       \/ call'.op = "add_source_node"

\* C35: a paper is never admitted as two nodes under two identifier forms:
\* a call of add_paper_to_graph or add_source_node adds no node that carries
\* the record of a paper that is a node already, whichever form that node
\* was added by.
C35_OneNodePerPaper ==
    [][ AddCall
            => \A k \in Range(gs'.nodes) \ Range(gs.nodes) :
                   \A j \in Range(gs.nodes) : gs'.data[k] # gs.data[j] ]_vars

\* the engine after remove_node_with_connections(paper_id), orphans kept
AfterRemoval(e, paper_id) == remove_node_with_connections(e, paper_id, FALSE).e

\* C36: adding and then removing a paper is a round trip: when
\* add_source_node(x) without expansion has added a node, for x a bare id, a
\* URL or a DOI, remove_node_with_connections(x) on the resulting engine
\* gives back the nodes, the edges and the added-identifiers set from before
\* the add.
C36_AddRemoveRoundTrip ==
    [][ (Finished("add_source_node") /\ ret'.ok)
            => LET back == AfterRemoval(gs', ret'.id)
               IN  /\ back.nodes = gs.nodes
                   /\ back.edges = gs.edges
                   /\ back.added_papers = gs.added_papers ]_vars

\* the paper a frontier key stands for: the record id of its node
FrontierPaper(e, k) == IF k \in Range(e.nodes) THEN NodeId(e, k) ELSE k

\* a round of an expansion call is about to look up the lists of call.level
Expanding ==
    /\ (pc = "roots" \/ pc = "root" \/ pc = "expand")
    /\ call.it < call.iterations

\* C37: within one expansion call no paper is in the frontier of more than
\* one round and the lists of a paper are looked up at most once: a frontier
\* about to be expanded holds no paper of an earlier frontier of the call
\* and no paper twice, and each of its keys is a node of the graph.
C37_FrontierOnce ==
    Expanding =>
        /\ \A i \in 1 .. Len(call.level) : call.level[i] \in Range(gs.nodes)
        /\ \A i, j \in 1 .. Len(call.level) :
               i < j => FrontierPaper(gs, call.level[i]) # FrontierPaper(gs, call.level[j])
        /\ \A i \in 1 .. Len(call.level) :
               \A k \in call.seen :
                   FrontierPaper(gs, call.level[i]) # FrontierPaper(gs, k)

\* the admissions of the last round made for frontier key p as `kind`
AdmittedFor(p, kind) == { d \in disc : d.p = p /\ d.kind = kind }

\* b^0 + b^1 + ... + b^n
RECURSIVE GeoSum(_, _)
GeoSum(b, n) == IF n = 0 THEN 1 ELSE 1 + b * GeoSum(b, n - 1)

\* C38: the size of an expansion is bounded by its parameters: a round
\* admits for each frontier paper at most cited-limit citing papers and at
\* most reference-limit references, so at most (c + f) times the size of the
\* frontier in all, and when build_graph_from_roots returns with r admitted
\* roots after n rounds the graph has at most r * (sum of (c+f)^j, j = 0..n)
\* nodes.
C38_ExpansionBound ==
    /\ \A p \in { d.p : d \in disc } :
           /\ Cardinality(AdmittedFor(p, "citing")) <= Current.cl
           /\ Cardinality(AdmittedFor(p, "reference")) <= Current.rl
    /\ Cardinality(disc) <= (Current.cl + Current.rl) * Len(Current.front)
    /\ (pc = "idle" /\ ret.op = "build_graph_from_roots" /\ ret.ok)
           => Len(gs.nodes) <= Cardinality(ret.admitted)
                                   * GeoSum(ret.cl + ret.rl, ret.rounds)

\* build_graph_from_roots returned after a round in which the source listed
\* more references for a frontier paper than the limit and one was admitted
C38_Witness ==
    /\ pc = "idle"
    /\ ret.op = "build_graph_from_roots"
    /\ ret.ok
    /\ \E i \in 1 .. Len(ret.front) :
           /\ Len(ret.lists[i].ref) > ret.rl
           /\ AdmittedFor(ret.front[i], "reference") # {}

\* C39: remove_node_with_connections reports in connected_nodes_affected
\* exactly the nodes that were adjacent to the removed node before the
\* removal, all its predecessors and all its successors, and not the removed
\* node itself.
C39_ConnectedAffected ==
    (pc = "idle" /\ ret.op = "remove_node_with_connections" /\ ret.ok)
        => /\ ret.connected = ret.nbrs
           /\ validate_paper_id(ret.id).id \notin ret.connected

====
